---------------------------- MODULE Spec2Model ----------------------------
(***************************************************************************)
(* Flag detection and baseline derivation of whoop-it-good:                *)
(*   src/ai/context.py  get_hrv_baseline, get_rhr_baseline                 *)
(*   src/ai/flags.py    the five check_* rules and run_all_checks          *)
(*   src/whoop/sync.py  the writer of the record tables                    *)
(* and of what surrounds them:                                             *)
(*   src/whoop/client.py       the token refresh of WhoopClient            *)
(*   src/slack_bot/handlers.py, src/journal/flow.py  journal threads       *)
(*   src/scheduler/jobs.py     the midday job                              *)
(*                                                                         *)
(* Units.  Time is counted in whole days (timedelta(days=..) is the only   *)
(* arithmetic the code does on timestamps).  HRV (ms), resting heart rate  *)
(* (bpm) and recovery score are integers; strain is in tenths; skin        *)
(* temperature in hundredths of a degree; sleep debt in milliseconds.      *)
(* A value rounded by round(x, 1) is held in tenths, one rounded by        *)
(* round(x, 2) in hundredths.  Python's None is the empty tuple and a      *)
(* present value v the 1-tuple <<v>>.                                      *)
(*                                                                         *)
(* Floats.  The sample values of the model are integers (skin temperature: *)
(* multiples of 0.5), so every mean is an exact rational sum/n with n < 20.*)
(* A tie of round(sum/n, 1) then has the form odd/4, which a double holds  *)
(* exactly, and Python rounds it half-to-even; every comparison against a  *)
(* threshold is decided the same way in doubles and in exact arithmetic.   *)
(* The one quotient that is not a mean, drop_pct of check_hrv_drop, is the *)
(* exact quotient rounded half-to-even; doubles agree with it except on an *)
(* exact tie at the second decimal, where they may give either neighbour.  *)
(*                                                                         *)
(* Ordering.  order_by(...desc()) leaves the order of equal timestamps to  *)
(* the database; the timestamps of one table are distinct in this model    *)
(* (upstream creates one cycle, recovery and sleep per physiological day;  *)
(* the model gives each day one workout as well).                          *)
(***************************************************************************)
EXTENDS Integers, Sequences, FiniteSets, TLC

VARIABLES
    now,            \* datetime.now(timezone.utc), in days
    recoveries,     \* table whoop_recovery
    cycles,         \* table whoop_cycles
    sleeps,         \* table whoop_sleep
    workouts,       \* table whoop_workouts
    pc,             \* run_all_checks: "idle" | "running" | "returned" | "raised"
    hrv_baseline,   \* run_all_checks: its argument
    i,              \* run_all_checks: index of the next checker (1..5), 6 after the loop
    flags,          \* run_all_checks: the list being built and returned
    log,            \* warnings written by logging.getLogger(__name__).warning
    faulted,        \* history: keys of the checkers whose call raised in this run
    ret,            \* outcome of the last direct call of a baseline function or rule
    client,         \* sync_all: its WhoopClient and the requests in flight
    journal,        \* _pending_journal_threads, and what handle_dm did with the replies
    job             \* _midday_sync_job: its position and the calls it has made

vars == <<now, recoveries, cycles, sleeps, workouts, pc, hrv_baseline, i, flags, log,
          faulted, ret, client, journal, job>>

store == <<recoveries, cycles, sleeps, workouts>>
run   == <<pc, hrv_baseline, i, flags, log, faulted>>

\* What lies around the tables and the rules
periphery == <<client, journal, job>>

---------------------------------------------------------------------------
(* Optional values and arithmetic *)

None == <<>>
Some(v) == <<v>>
IsNone(x) == x = <<>>
Val(x) == x[1]

RECURSIVE SumSeq(_)
SumSeq(s) == IF s = <<>> THEN 0 ELSE Head(s) + SumSeq(Tail(s))

\* The integer nearest to num/den (den > 0), a tie going to the even one:
\* round() of Python 3 on a value a double holds exactly.
RoundHalfEven(num, den) ==
    LET q == num \div den
        r == num % den
    IN  IF 2 * r < den THEN q
        ELSE IF 2 * r > den THEN q + 1
        ELSE IF q % 2 = 0 THEN q ELSE q + 1

\* Mutant of RoundMean1: the mean cut to one decimal instead of rounded.
RoundMean1_Truncated(values) == (10 * SumSeq(values)) \div Len(values)

\* round(mean(values), 1), in tenths; values is a non-empty sequence of integers.
RoundMean1(values) == RoundHalfEven(10 * SumSeq(values), Len(values))

Take(s, n) == SubSeq(s, 1, IF Len(s) < n THEN Len(s) ELSE n)

RECURSIVE MapField(_, _)
MapField(rows, f) ==
    IF rows = <<>> THEN <<>> ELSE <<Val(Head(rows)[f])>> \o MapField(Tail(rows), f)

RECURSIVE FilterNotNone(_, _)
FilterNotNone(rows, f) ==
    IF rows = <<>> THEN <<>>
    ELSE IF IsNone(Head(rows)[f]) THEN FilterNotNone(Tail(rows), f)
    ELSE <<Head(rows)>> \o FilterNotNone(Tail(rows), f)

\* .order_by(<column>.desc()).all() over the rows S
RECURSIVE OrderByDesc(_, _)
OrderByDesc(S, col) ==
    IF S = {} THEN <<>>
    ELSE LET m == CHOOSE x \in S : \A y \in S : x[col] >= y[col]
         IN  <<m>> \o OrderByDesc(S \ {m}, col)

Range(s) == {s[k] : k \in DOMAIN s}

---------------------------------------------------------------------------
(* Thresholds: src/config/settings.py *)

HRV_DROP_THRESHOLD_PCT == 15           \* 0.15, in hundredths
HRV_DROP_CONSECUTIVE_DAYS == 3
LOW_RECOVERY_THRESHOLD == 33
LOW_RECOVERY_CONSECUTIVE_DAYS == 3
SLEEP_DEBT_THRESHOLD_HOURS == 2
SLEEP_DEBT_WINDOW_DAYS == 5
SKIN_TEMP_SPIKE_C == 50                \* 0.5 C, in hundredths
STRAIN_OVERLOAD_DAYS == 5
SKIN_TEMP_WINDOW_DAYS == 14
SKIN_TEMP_MIN_SAMPLES == 5
DEFAULT_BASELINE_DAYS == 30

---------------------------------------------------------------------------
(* Outcomes of a call: a returned value or a raised exception *)

Returned(v) == [kind |-> "return", value |-> v]
Raised(e)   == [kind |-> "raise", exc |-> e]

\* What a query raises when the storage layer fails.  get_db commits and closes
\* the session before a rule reads the columns of the rows it was handed;
\* whether the rows are still readable then is the ORM's business and is part
\* of the same choice: the query either hands over readable rows or raises.
StorageFault == "OperationalError"

\* Mutant of Flag: the lower severity is written "info".
Flag_Info(key, severity, data) ==
    [key |-> key, severity |-> IF severity = "warn" THEN "info" ELSE severity,
     data |-> data]

\* The message of a Flag is an f-string over the values kept in data and the
\* thresholds above; it carries no information of its own and is left out.
Flag(key, severity, data) == [key |-> key, severity |-> severity, data |-> data]

---------------------------------------------------------------------------
(* Queries *)

\* Mutant of GetRecentRecoveries: the `days` newest rows, whatever their age.
GetRecentRecoveries_NewestRows(days) ==
    Take(OrderByDesc(recoveries, "created_at"), days)

\* _get_recent_recoveries(days): created_at >= cutoff, newest first
GetRecentRecoveries(days) ==
    OrderByDesc({r \in recoveries : r.created_at >= now - days}, "created_at")

\* recent = [r for r in rows if r.<f> is not None][:n], rows the n + 2 trailing
\* days: the sampling shared by check_hrv_drop and check_low_recovery
RecentSamples(f, n) == Take(FilterNotNone(GetRecentRecoveries(n + 2), f), n)

\* Mutant of BaselineRows: the cutoff itself is left out of the window.
BaselineRows_AfterCutoff(days, f) ==
    OrderByDesc({r \in recoveries : r.created_at > now - days /\ ~IsNone(r[f])},
                "created_at")

\* The rows of get_hrv_baseline / get_rhr_baseline: in the window, field not null.
\* The query has no order_by; the mean does not depend on the order.
BaselineRows(days, f) ==
    OrderByDesc({r \in recoveries : r.created_at >= now - days /\ ~IsNone(r[f])},
                "created_at")

\* Mutant of BaselineOf: an empty window yields 0.0 instead of None.
BaselineOf_ZeroWhenEmpty(days, f) ==
    LET values == MapField(BaselineRows(days, f), f)
    IN  IF values # <<>> THEN Some(RoundMean1(values)) ELSE Some(0)

\* round(mean(values), 1) if values else None
BaselineOf(days, f) ==
    LET values == MapField(BaselineRows(days, f), f)
    IN  IF values # <<>> THEN Some(RoundMean1(values)) ELSE None

\* get_hrv_baseline(days); dbOk: whether the query reaches the storage layer
get_hrv_baseline(days, dbOk) ==
    IF ~dbOk THEN Raised(StorageFault)
    ELSE Returned(BaselineOf(days, "hrv_rmssd_milli"))

\* get_rhr_baseline(days)
get_rhr_baseline(days, dbOk) ==
    IF ~dbOk THEN Raised(StorageFault)
    ELSE Returned(BaselineOf(days, "resting_heart_rate"))

---------------------------------------------------------------------------
(* The five rules *)

\* Python truthiness of an optional number: None and 0 are falsy.
Falsy(x) == IsNone(x) \/ Val(x) = 0

\* Mutant of AllBelowHrvThreshold: any() in place of all().
AllBelowHrvThreshold_Any(values, b) ==
    \E k \in DOMAIN values : values[k] * 1000 < b * (100 - HRV_DROP_THRESHOLD_PCT)

\* all(r.hrv_rmssd_milli < hrv_baseline * (1 - HRV_DROP_THRESHOLD_PCT) for r in recent)
\* with the baseline b in tenths
AllBelowHrvThreshold(values, b) ==
    \A k \in DOMAIN values : values[k] * 1000 < b * (100 - HRV_DROP_THRESHOLD_PCT)

\* Mutant of HrvDropAfterGuard: drop_pct is taken from the mean itself, not
\* from its rounded value avg.
HrvDropAfterGuard_DropOfMean(b, dbOk) ==
    IF ~dbOk THEN Raised(StorageFault)
    ELSE
      LET recent == RecentSamples("hrv_rmssd_milli", HRV_DROP_CONSECUTIVE_DAYS)
          values == MapField(recent, "hrv_rmssd_milli")
      IN  IF Len(recent) < HRV_DROP_CONSECUTIVE_DAYS THEN Returned(None)
          ELSE IF AllBelowHrvThreshold(values, Val(b)) THEN
            LET avg == RoundMean1(values)
                drop_pct == RoundHalfEven((Val(b) * Len(values) - 10 * SumSeq(values)) * 1000,
                                          Val(b) * Len(values))
            IN  Returned(Some(Flag("hrv_drop", "alert",
                    [avg_hrv |-> avg, baseline |-> Val(b), drop_pct |-> drop_pct])))
          ELSE Returned(None)

\* check_hrv_drop past its guard, for a baseline b that is a number
HrvDropAfterGuard(b, dbOk) ==
    IF ~dbOk THEN Raised(StorageFault)
    ELSE
      LET recent == RecentSamples("hrv_rmssd_milli", HRV_DROP_CONSECUTIVE_DAYS)
          values == MapField(recent, "hrv_rmssd_milli")
      IN  IF Len(recent) < HRV_DROP_CONSECUTIVE_DAYS THEN Returned(None)
          ELSE IF AllBelowHrvThreshold(values, Val(b)) THEN
            LET avg == RoundMean1(values)
                drop_pct == RoundHalfEven((Val(b) - avg) * 1000, Val(b))
            IN  Returned(Some(Flag("hrv_drop", "alert",
                    [avg_hrv |-> avg, baseline |-> Val(b), drop_pct |-> drop_pct])))
          ELSE Returned(None)

\* Mutant of check_hrv_drop: the guard on the baseline is missing, and
\* None * (1 - HRV_DROP_THRESHOLD_PCT) raises.
check_hrv_drop_Unguarded(b, dbOk) ==
    IF IsNone(b) THEN (IF dbOk THEN Raised("TypeError") ELSE Raised(StorageFault))
    ELSE HrvDropAfterGuard(b, dbOk)

\* `if not hrv_baseline: return None`, then the rule
check_hrv_drop(b, dbOk) ==
    IF Falsy(b) THEN Returned(None) ELSE HrvDropAfterGuard(b, dbOk)

\* Mutant of check_low_recovery: the scores are reported oldest first.
check_low_recovery_OldestFirst(dbOk) ==
    IF ~dbOk THEN Raised(StorageFault)
    ELSE
      LET recent == RecentSamples("recovery_score", LOW_RECOVERY_CONSECUTIVE_DAYS)
          scores == MapField(recent, "recovery_score")
      IN  IF Len(recent) < LOW_RECOVERY_CONSECUTIVE_DAYS THEN Returned(None)
          ELSE IF \A k \in DOMAIN scores : scores[k] < LOW_RECOVERY_THRESHOLD
               THEN Returned(Some(Flag("low_recovery", "alert",
                        [scores |-> [k \in DOMAIN scores |-> scores[Len(scores) + 1 - k]]])))
          ELSE Returned(None)

\* Mutant of check_low_recovery: a score equal to the threshold counts as low.
check_low_recovery_AtMost(dbOk) ==
    IF ~dbOk THEN Raised(StorageFault)
    ELSE
      LET recent == RecentSamples("recovery_score", LOW_RECOVERY_CONSECUTIVE_DAYS)
          scores == MapField(recent, "recovery_score")
      IN  IF Len(recent) < LOW_RECOVERY_CONSECUTIVE_DAYS THEN Returned(None)
          ELSE IF \A k \in DOMAIN scores : scores[k] <= LOW_RECOVERY_THRESHOLD
               THEN Returned(Some(Flag("low_recovery", "alert", [scores |-> scores])))
          ELSE Returned(None)

check_low_recovery(dbOk) ==
    IF ~dbOk THEN Raised(StorageFault)
    ELSE
      LET recent == RecentSamples("recovery_score", LOW_RECOVERY_CONSECUTIVE_DAYS)
          scores == MapField(recent, "recovery_score")
      IN  IF Len(recent) < LOW_RECOVERY_CONSECUTIVE_DAYS THEN Returned(None)
          ELSE IF \A k \in DOMAIN scores : scores[k] < LOW_RECOVERY_THRESHOLD
               THEN Returned(Some(Flag("low_recovery", "alert", [scores |-> scores])))
          ELSE Returned(None)

\* Mutant of SleepDebtVerdict: a debt equal to the threshold fires.
SleepDebtVerdict_AtLeast(table, dbOk) ==
    IF ~dbOk THEN Raised(StorageFault)
    ELSE
      LET rows == OrderByDesc({s \in table : s.end >= now - SLEEP_DEBT_WINDOW_DAYS
                                             /\ ~IsNone(s.sleep_debt_milli)}, "end")
      IN  IF rows = <<>> THEN Returned(None)
          ELSE LET debt == Val(rows[1].sleep_debt_milli)
               IN  IF debt >= SLEEP_DEBT_THRESHOLD_HOURS * 3600000
                   THEN Returned(Some(Flag("sleep_debt", "warn",
                            [debt_hours |-> RoundHalfEven(debt * 10, 3600000)])))
                   ELSE Returned(None)

\* Mutant of SleepDebtVerdict: every record of the window has to exceed the
\* threshold, as in the rules that look at a consecutive run.
SleepDebtVerdict_WholeRun(table, dbOk) ==
    IF ~dbOk THEN Raised(StorageFault)
    ELSE
      LET rows == OrderByDesc({s \in table : s.end >= now - SLEEP_DEBT_WINDOW_DAYS
                                             /\ ~IsNone(s.sleep_debt_milli)}, "end")
      IN  IF rows = <<>> THEN Returned(None)
          ELSE LET debt == Val(rows[1].sleep_debt_milli)
               IN  IF \A k \in DOMAIN rows :
                         Val(rows[k].sleep_debt_milli) > SLEEP_DEBT_THRESHOLD_HOURS * 3600000
                   THEN Returned(Some(Flag("sleep_debt", "warn",
                            [debt_hours |-> RoundHalfEven(debt * 10, 3600000)])))
                   ELSE Returned(None)

\* The body of check_sleep_debt over the rows of whoop_sleep
SleepDebtVerdict(table, dbOk) ==
    IF ~dbOk THEN Raised(StorageFault)
    ELSE
      LET rows == OrderByDesc({s \in table : s.end >= now - SLEEP_DEBT_WINDOW_DAYS
                                             /\ ~IsNone(s.sleep_debt_milli)}, "end")
      IN  IF rows = <<>> THEN Returned(None)
          ELSE LET debt == Val(rows[1].sleep_debt_milli)
               IN  \* latest_debt_h = debt / 3_600_000 > SLEEP_DEBT_THRESHOLD_HOURS
                   IF debt > SLEEP_DEBT_THRESHOLD_HOURS * 3600000
                   THEN Returned(Some(Flag("sleep_debt", "warn",
                            [debt_hours |-> RoundHalfEven(debt * 10, 3600000)])))
                   ELSE Returned(None)

check_sleep_debt(dbOk) == SleepDebtVerdict(sleeps, dbOk)

\* Mutant of check_skin_temp_spike: the guard len(temps) < 5 is missing, and
\* temps[0] / mean(temps[1:]) raise on fewer than two samples.
check_skin_temp_spike_Unguarded(dbOk) ==
    IF ~dbOk THEN Raised(StorageFault)
    ELSE
      LET rows  == GetRecentRecoveries(SKIN_TEMP_WINDOW_DAYS)
          temps == MapField(FilterNotNone(rows, "skin_temp_celsius"), "skin_temp_celsius")
      IN  IF Len(temps) < 2 THEN Raised("StatisticsError")
          ELSE IF temps[1] * (Len(temps) - 1) - SumSeq(Tail(temps))
                    > SKIN_TEMP_SPIKE_C * (Len(temps) - 1)
               THEN Returned(Some(Flag("skin_temp", "alert", [latest |-> temps[1]])))
          ELSE Returned(None)

\* Mutant of check_skin_temp_spike: the latest sample is part of its own baseline.
check_skin_temp_spike_LatestInMean(dbOk) ==
    IF ~dbOk THEN Raised(StorageFault)
    ELSE
      LET rows  == GetRecentRecoveries(SKIN_TEMP_WINDOW_DAYS)
          temps == MapField(FilterNotNone(rows, "skin_temp_celsius"), "skin_temp_celsius")
      IN  IF Len(temps) < SKIN_TEMP_MIN_SAMPLES THEN Returned(None)
          ELSE
            LET n      == Len(temps)
                latest == temps[1]
            IN  IF latest * n - SumSeq(temps) > SKIN_TEMP_SPIKE_C * n
                THEN Returned(Some(Flag("skin_temp", "alert",
                         [latest   |-> latest,
                          baseline |-> RoundHalfEven(SumSeq(temps), n),
                          delta    |-> RoundHalfEven(latest * n - SumSeq(temps), n)])))
                ELSE Returned(None)

check_skin_temp_spike(dbOk) ==
    IF ~dbOk THEN Raised(StorageFault)
    ELSE
      LET rows  == GetRecentRecoveries(SKIN_TEMP_WINDOW_DAYS)
          temps == MapField(FilterNotNone(rows, "skin_temp_celsius"), "skin_temp_celsius")
      IN  IF Len(temps) < SKIN_TEMP_MIN_SAMPLES THEN Returned(None)
          ELSE
            LET rest   == Tail(temps)
                n      == Len(rest)
                latest == temps[1]
            IN  \* delta = latest - mean(temps[1:]) > SKIN_TEMP_SPIKE_C, times n
                IF latest * n - SumSeq(rest) > SKIN_TEMP_SPIKE_C * n
                THEN Returned(Some(Flag("skin_temp", "alert",
                         [latest   |-> latest,
                          baseline |-> RoundHalfEven(SumSeq(rest), n),
                          delta    |-> RoundHalfEven(latest * n - SumSeq(rest), n)])))
                ELSE Returned(None)

\* Mutant of Overloaded: one of the two tests is enough.
Overloaded_Either(c, r) ==
    \/ (IF Falsy(c.strain_score) THEN 0 ELSE Val(c.strain_score)) >= 140
    \/ (IF Falsy(r.recovery_score) THEN 100 ELSE Val(r.recovery_score)) < 67

\* (c.strain_score or 0) >= 14 and (r.recovery_score or 100) < 67; strain in tenths
Overloaded(c, r) ==
    /\ (IF Falsy(c.strain_score) THEN 0 ELSE Val(c.strain_score)) >= 140
    /\ (IF Falsy(r.recovery_score) THEN 100 ELSE Val(r.recovery_score)) < 67

check_strain_overload(dbOk) ==
    IF ~dbOk THEN Raised(StorageFault)
    ELSE
      LET cs == OrderByDesc({c \in cycles : c.start >= now - STRAIN_OVERLOAD_DAYS
                                            /\ ~IsNone(c.strain_score)}, "start")
          rs == OrderByDesc({r \in recoveries : r.created_at >= now - STRAIN_OVERLOAD_DAYS
                                                /\ ~IsNone(r.recovery_score)}, "created_at")
      IN  IF Len(cs) < STRAIN_OVERLOAD_DAYS \/ Len(rs) < STRAIN_OVERLOAD_DAYS
          THEN Returned(None)
          ELSE
            LET overloaded_days ==
                    Cardinality({k \in 1..STRAIN_OVERLOAD_DAYS : Overloaded(cs[k], rs[k])})
                strains == MapField(Take(cs, STRAIN_OVERLOAD_DAYS), "strain_score")
                scores  == MapField(Take(rs, STRAIN_OVERLOAD_DAYS), "recovery_score")
            IN  IF overloaded_days >= STRAIN_OVERLOAD_DAYS
                THEN Returned(Some(Flag("strain_overload", "alert",
                         [avg_strain   |-> RoundHalfEven(SumSeq(strains), Len(strains)),
                          avg_recovery |-> RoundMean1(scores)])))
                ELSE Returned(None)

---------------------------------------------------------------------------
(* The writer: sync_all, src/whoop/sync.py *)

\* (r.get("score") or {}).get(f)
ScoreGet(score, f) == IF IsNone(score) THEN None ELSE Val(score)[f]

\* _sync_cycles, for one upstream record
SyncCycle(table, r) ==
    IF \E x \in table : x.id = r.id THEN table
    ELSE table \cup {[id |-> r.id, start |-> r.start,
                      strain_score |-> ScoreGet(r.score, "strain")]}

\* _sync_recovery, for one upstream record
SyncRecovery(table, r) ==
    IF \E x \in table : x.cycle_id = r.cycle_id THEN table
    ELSE table \cup {[cycle_id |-> r.cycle_id, created_at |-> r.created_at,
                      recovery_score     |-> ScoreGet(r.score, "recovery_score"),
                      hrv_rmssd_milli    |-> ScoreGet(r.score, "hrv_rmssd_milli"),
                      resting_heart_rate |-> ScoreGet(r.score, "resting_heart_rate"),
                      skin_temp_celsius  |-> ScoreGet(r.score, "skin_temp_celsius")]}

\* Mutant of DebtStored: a debt of 0 is stored as 0.
DebtStored_KeepsZero(score) == ScoreGet(score, "sleep_debt_milli")

\* score.get("sleep_debt_milli") if score.get("sleep_debt_milli") else None
DebtStored(score) ==
    IF Falsy(ScoreGet(score, "sleep_debt_milli")) THEN None
    ELSE ScoreGet(score, "sleep_debt_milli")

\* _sync_sleep, for one upstream record
SyncSleep(table, r) ==
    IF \E x \in table : x.id = r.id THEN table
    ELSE table \cup {[id |-> r.id, end |-> r.end, sleep_debt_milli |-> DebtStored(r.score)]}

\* Mutant of SyncWorkout: the record is inserted without the lookup.
SyncWorkout_NoLookup(table, r) ==
    table \cup {[id |-> r.id, start |-> r.start,
                 strain_score |-> ScoreGet(r.score, "strain")]}

\* _sync_workouts, for one upstream record
SyncWorkout(table, r) ==
    IF \E x \in table : x.id = r.id THEN table
    ELSE table \cup {[id |-> r.id, start |-> r.start,
                      strain_score |-> ScoreGet(r.score, "strain")]}

\* What upstream holds for one physiological day: the score objects of its
\* cycle, recovery, sleep and workout.
UpstreamDay(strain, rec, hrv, rhr, skin, debt, workout) ==
    [workout  |-> Some([strain |-> Some(workout)]),
     cycle    |-> Some([strain |-> Some(strain)]),
     recovery |-> Some([recovery_score |-> Some(rec), hrv_rmssd_milli |-> Some(hrv),
                        resting_heart_rate |-> Some(rhr), skin_temp_celsius |-> Some(skin)]),
     sleep    |-> Some([sleep_debt_milli |-> Some(debt)])]

\* The days upstream can report: an overloaded day (red recovery, low HRV,
\* raised skin temperature, 2.5 h of sleep debt), a rest day (no sleep debt)
\* and a hard training day (yellow recovery, exactly 2.0 h of sleep debt).
UpstreamDays ==
    { UpstreamDay(150, 20,  40, 60, 3450, 9000000, 90),
      UpstreamDay(100, 70, 100, 50, 3300, 0, 40),
      UpstreamDay(150, 50, 100, 55, 3300, 7200000, 120) }

\* No sync is under way: no WhoopClient exists.
NoClient == [state |-> "none"]

\* handlers.py:15, with the history the properties read: the prompts posted so
\* far, the replies saved per thread, and the last event handled.
NoJournal == [pending |-> {}, prompts |-> 0, saved |-> <<>>, last |-> [kind |-> "none"]]

\* No midday job is under way.
NoJob == [pc |-> "idle", trace |-> <<>>]

InitPeriphery == client = NoClient /\ journal = NoJournal /\ job = NoJob

\* Last day the clock reaches.
MaxNow == 4

---------------------------------------------------------------------------
(* run_all_checks, src/ai/flags.py *)

CheckerKeys == <<"hrv_drop", "low_recovery", "sleep_debt", "skin_temp", "strain_overload">>

\* Mutant of Checker: sleep debt is checked before low recovery.
Checker_Reordered(k, dbOk) ==
    CASE k = 1 -> check_hrv_drop(hrv_baseline, dbOk)
      [] k = 2 -> check_sleep_debt(dbOk)
      [] k = 3 -> check_low_recovery(dbOk)
      [] k = 4 -> check_skin_temp_spike(dbOk)
      [] k = 5 -> check_strain_overload(dbOk)

\* Mutant of Checker: without a baseline the HRV rule is given the one
\* computed from the tables.
Checker_ComputesBaseline(k, dbOk) ==
    CASE k = 1 -> check_hrv_drop(IF IsNone(hrv_baseline)
                                 THEN BaselineOf(DEFAULT_BASELINE_DAYS, "hrv_rmssd_milli")
                                 ELSE hrv_baseline, dbOk)
      [] k = 2 -> check_low_recovery(dbOk)
      [] k = 3 -> check_sleep_debt(dbOk)
      [] k = 4 -> check_skin_temp_spike(dbOk)
      [] k = 5 -> check_strain_overload(dbOk)

\* checkers[k](): the k-th entry of the list built at the top of run_all_checks
Checker(k, dbOk) ==
    CASE k = 1 -> check_hrv_drop(hrv_baseline, dbOk)
      [] k = 2 -> check_low_recovery(dbOk)
      [] k = 3 -> check_sleep_debt(dbOk)
      [] k = 4 -> check_skin_temp_spike(dbOk)
      [] k = 5 -> check_strain_overload(dbOk)

\* Mutant of ExceptException: only the faults of the rule's own arithmetic
\* are caught.
ExceptException_Narrow(exc) == exc \in {"TypeError", "StatisticsError"}

\* `except Exception as e`: the faults a rule can raise all derive from Exception
ExceptException(exc) == exc \in {StorageFault, "TypeError", "StatisticsError"}

\* Mutant of AppendIfFlag: a flag is kept only while the list is empty.
AppendIfFlag_FirstOnly(fs, value) ==
    IF IsNone(value) \/ fs # <<>> THEN fs ELSE Append(fs, Val(value))

\* `if flag: flags.append(flag)`
AppendIfFlag(fs, value) == IF IsNone(value) THEN fs ELSE Append(fs, Val(value))

\* .warning(f"Flag check failed: {e}")
Warning(exc) == [level |-> "warning", text |-> "Flag check failed: ", e |-> exc]

\* Mutant of LogFault: the fault is swallowed without a log line.
LogFault_Silent(lg, exc) == lg

\* The body of the except clause
LogFault(lg, exc) == Append(lg, Warning(exc))

Init ==
    /\ now = 0
    /\ recoveries = {} /\ cycles = {} /\ sleeps = {} /\ workouts = {}
    /\ pc = "idle" /\ hrv_baseline = None /\ i = 0
    /\ flags = <<>> /\ log = <<>> /\ faulted = {}
    /\ ret = [fn |-> "none"]
    /\ InitPeriphery

\* A day passes.  The clock is read once per rule; a run takes far less than
\* the model's unit of time, so the clock stands still while a run is under way.
Tick ==
    /\ pc = "idle"
    /\ now < MaxNow
    /\ now' = now + 1
    /\ UNCHANGED <<periphery, store, run, ret>>

\* sync_all: the upstream records of the current day are fetched and inserted
\* unless their ids are stored already.  The jobs that sync and the callers of
\* run_all_checks are coroutines of one event loop and run_all_checks never
\* awaits, so no sync of this process commits while a run is under way.
SyncAll ==
    /\ pc = "idle"
    /\ \E d \in UpstreamDays :
         /\ cycles' = SyncCycle(cycles, [id |-> now, start |-> now, score |-> d.cycle])
         /\ recoveries' = SyncRecovery(recoveries,
                              [cycle_id |-> now, created_at |-> now, score |-> d.recovery])
         /\ sleeps' = SyncSleep(sleeps, [id |-> now, end |-> now, score |-> d.sleep])
         /\ workouts' = SyncWorkout(workouts, [id |-> now, start |-> now, score |-> d.workout])
    /\ UNCHANGED <<now, periphery, run, ret>>

\* Mutant of CallRunAllChecks: the list of flags outlives the call (a list
\* created once and shared by all calls) instead of being created afresh.
CallRunAllChecks_SharedList ==
    /\ pc = "idle"
    /\ \E b \in {None, BaselineOf(DEFAULT_BASELINE_DAYS, "hrv_rmssd_milli")} :
         hrv_baseline' = b
    /\ pc' = "running" /\ i' = 1
    /\ flags' = flags /\ log' = <<>> /\ faulted' = {}
    /\ UNCHANGED <<now, periphery, store, ret>>

\* A caller enters run_all_checks: with the baseline it has just computed
\* (morning.py:89-91, jobs.py:51-52, analyzer.py:46-50) or with the default None.
CallRunAllChecks ==
    /\ pc = "idle"
    /\ \E b \in {None, BaselineOf(DEFAULT_BASELINE_DAYS, "hrv_rmssd_milli")} :
         hrv_baseline' = b
    /\ pc' = "running" /\ i' = 1
    /\ flags' = <<>> /\ log' = <<>> /\ faulted' = {}
    /\ UNCHANGED <<now, periphery, store, ret>>

\* One iteration of `for checker in checkers`: try / except Exception.
CheckerStep ==
    /\ pc = "running" /\ i <= Len(CheckerKeys)
    /\ \E dbOk \in BOOLEAN :
         LET out == Checker(i, dbOk)
         IN  IF out.kind = "return"
             THEN /\ flags' = AppendIfFlag(flags, out.value)
                  /\ i' = i + 1
                  /\ UNCHANGED <<pc, log, faulted>>
             ELSE IF ExceptException(out.exc)
             THEN /\ log' = LogFault(log, out.exc)
                  /\ faulted' = faulted \cup {CheckerKeys[i]}
                  /\ i' = i + 1
                  /\ UNCHANGED <<pc, flags>>
             ELSE /\ pc' = "raised"
                  /\ faulted' = faulted \cup {CheckerKeys[i]}
                  /\ UNCHANGED <<i, flags, log>>

\* The iteration as a step of the program: it writes nothing but the frame
\* of run_all_checks.
RunChecker == CheckerStep /\ UNCHANGED <<now, periphery, store, hrv_baseline, ret>>

\* Mutant of ReturnFlags: before it returns, the run deletes the recovery rows
\* older than a day.
ReturnFlags_Prunes ==
    /\ pc = "running" /\ i = Len(CheckerKeys) + 1
    /\ pc' = "returned"
    /\ recoveries' = {r \in recoveries : r.created_at >= now - 1}
    /\ UNCHANGED <<now, periphery, cycles, sleeps, workouts, hrv_baseline, i, flags, log, faulted, ret>>

\* `return flags`
ReturnFlags ==
    /\ pc = "running" /\ i = Len(CheckerKeys) + 1
    /\ pc' = "returned"
    /\ UNCHANGED <<now, periphery, store, hrv_baseline, i, flags, log, faulted, ret>>

\* The caller has consumed the result.
CallerDone ==
    /\ pc \in {"returned", "raised"}
    /\ pc' = "idle" /\ hrv_baseline' = None /\ i' = 0
    /\ flags' = <<>> /\ log' = <<>> /\ faulted' = {}
    /\ UNCHANGED <<now, periphery, store, ret>>

Next == Tick \/ SyncAll \/ CallRunAllChecks \/ RunChecker \/ ReturnFlags \/ CallerDone

Spec == Init /\ [][Next]_vars

---------------------------------------------------------------------------
(* Properties of run_all_checks, checked under Spec *)

KeyIndex(key) == CHOOSE k \in DOMAIN CheckerKeys : CheckerKeys[k] = key

HasFlag(key) == \E n \in DOMAIN flags : flags[n].key = key

\* The rule of key CheckerKeys[k] called on its own, its query failing exactly
\* if it failed in the run.
Alone(k) == Checker(k, CheckerKeys[k] \notin faulted)

FiresAlone(k) == Alone(k).kind = "return" /\ ~IsNone(Alone(k).value)

\* The flags of the rules lo..hi that did not fault, in the order of the rules.
RECURSIVE FlagsOfRules(_, _)
FlagsOfRules(lo, hi) ==
    IF lo > hi THEN <<>>
    ELSE (IF FiresAlone(lo) THEN <<Val(Alone(lo).value)>> ELSE <<>>)
         \o FlagsOfRules(lo + 1, hi)

\* Every query the run issued failed: the storage layer was unavailable.
\* check_hrv_drop issues no query when its baseline is falsy.
OutageRun ==
    \A k \in DOMAIN CheckerKeys :
        \/ CheckerKeys[k] \in faulted
        \/ k = 1 /\ Falsy(hrv_baseline)

NoStorageFault == \A n \in DOMAIN log : log[n].e # StorageFault

CountNonNull(table, col, days, f) ==
    Cardinality({r \in table : r[col] >= now - days /\ ~IsNone(r[f])})

\* Every rule lacks the samples it requires.
InsufficientData ==
    /\ \/ IsNone(hrv_baseline)
       \/ CountNonNull(recoveries, "created_at", HRV_DROP_CONSECUTIVE_DAYS + 2,
                       "hrv_rmssd_milli") < HRV_DROP_CONSECUTIVE_DAYS
    /\ CountNonNull(recoveries, "created_at", LOW_RECOVERY_CONSECUTIVE_DAYS + 2,
                    "recovery_score") < LOW_RECOVERY_CONSECUTIVE_DAYS
    /\ CountNonNull(sleeps, "end", SLEEP_DEBT_WINDOW_DAYS, "sleep_debt_milli") = 0
    /\ CountNonNull(recoveries, "created_at", SKIN_TEMP_WINDOW_DAYS,
                    "skin_temp_celsius") < SKIN_TEMP_MIN_SAMPLES
    /\ \/ CountNonNull(cycles, "start", STRAIN_OVERLOAD_DAYS, "strain_score")
            < STRAIN_OVERLOAD_DAYS
       \/ CountNonNull(recoveries, "created_at", STRAIN_OVERLOAD_DAYS, "recovery_score")
            < STRAIN_OVERLOAD_DAYS

\* C1: whatever subset of the rules raises, run_all_checks does not raise; all
\* five rules are evaluated, and the list holds exactly the flags of the rules
\* that did not raise, in the order of the rules, one warning per raising rule.
C1_FaultIsolation ==
    /\ pc # "raised"
    /\ pc \in {"running", "returned"} =>
          /\ flags = FlagsOfRules(1, i - 1)
          /\ \A key \in faulted : ~HasFlag(key)
          /\ Len(log) = Cardinality(faulted)
    /\ pc = "returned" => i = Len(CheckerKeys) + 1

\* C1 witness: skin_temp faulted, an earlier and a later rule still flagged.
C1_Witness ==
    /\ pc = "returned"
    /\ "skin_temp" \in faulted
    /\ HasFlag("low_recovery") /\ HasFlag("strain_overload")

\* C2 as claimed: a run during which every query failed does not return a list.
C2_OutagePropagates == pc = "returned" => ~OutageRun

\* C2 amended: a run during which every query failed returns the empty list,
\* having logged one storage warning per rule that queried; it never raises.
C2_OutageContained ==
    /\ pc # "raised"
    /\ pc = "returned" /\ OutageRun =>
          /\ flags = <<>>
          /\ Len(log) = (IF Falsy(hrv_baseline) THEN 4 ELSE 5)
          /\ \A n \in DOMAIN log : log[n] = Warning(StorageFault)

\* C2 witness: an outage over a store on which rules would have fired.
C2_Witness ==
    /\ pc = "returned" /\ OutageRun
    /\ ~Falsy(hrv_baseline)
    /\ ~IsNone(check_low_recovery(TRUE).value)
    /\ ~IsNone(check_sleep_debt(TRUE).value)

\* C3: the list is a subsequence of the five keys in their fixed order: at
\* most five flags, every key a rule's key, the keys strictly ascending in
\* rule order (so no key twice).
C3_OrderedSubsequence ==
    /\ Len(flags) <= Len(CheckerKeys)
    /\ \A n \in DOMAIN flags : flags[n].key \in Range(CheckerKeys)
    /\ \A a, b \in DOMAIN flags :
          a < b => KeyIndex(flags[a].key) < KeyIndex(flags[b].key)

\* C3 witness: three flags returned, the first and the fourth rule silent.
C3_Witness ==
    /\ pc = "returned" /\ faulted = {}
    /\ Len(flags) = 3
    /\ ~HasFlag("hrv_drop") /\ ~HasFlag("skin_temp")

C5_NoSuppression ==
    pc = "returned" =>
        \A k \in DOMAIN CheckerKeys :
            /\ HasFlag(CheckerKeys[k]) <=> FiresAlone(k)
            /\ FiresAlone(k) => Val(Alone(k).value) \in Range(flags)

\* C5 witness: two rules fire, one is silent and one faults, in one run.
C5_Witness ==
    /\ pc = "returned"
    /\ HasFlag("low_recovery") /\ HasFlag("sleep_debt")
    /\ "strain_overload" \in faulted
    /\ ~HasFlag("skin_temp") /\ "skin_temp" \notin faulted

\* C9: with an undefined baseline check_hrv_drop neither flags nor raises,
\* so no run entered with None ever holds hrv_drop.
C9_UndefinedBaselineDeclines ==
    pc \in {"running", "returned"} /\ IsNone(hrv_baseline) =>
        /\ ~HasFlag("hrv_drop")
        /\ "hrv_drop" \notin faulted
        /\ check_hrv_drop(hrv_baseline, TRUE) = Returned(None)
        /\ check_hrv_drop(hrv_baseline, FALSE) = Returned(None)

\* C9 witness: a run entered with None over records on which the rule fires
\* once it is given their baseline.
C9_Witness ==
    /\ pc = "returned" /\ IsNone(hrv_baseline)
    /\ ~IsNone(check_hrv_drop(BaselineOf(DEFAULT_BASELINE_DAYS, "hrv_rmssd_milli"),
                               TRUE).value)

---------------------------------------------------------------------------
(* The tables and the baseline argument across a run, checked under Spec *)

\* A step of the core: the caller's baseline computation and entry into
\* run_all_checks, one rule evaluated, the return.
CoreStep == CallRunAllChecks \/ RunChecker \/ ReturnFlags

\* C19: no step of the core creates, changes or deletes a stored recovery,
\* cycle or sleep record, whether the rule evaluated fires, stays silent or
\* faults.
C19_CoreReadOnly == [][CoreStep => UNCHANGED store]_vars

\* C19 witness: a run over filled tables has returned; a rule fired, a rule
\* stayed silent and a rule faulted.
C19_Witness ==
    /\ pc = "returned"
    /\ recoveries # {} /\ cycles # {} /\ sleeps # {}
    /\ HasFlag("sleep_debt") /\ "low_recovery" \in faulted
    /\ ~HasFlag("skin_temp") /\ "skin_temp" \notin faulted

\* What the HRV rule returns on the baseline computed from the tables
HrvDropOnComputed ==
    check_hrv_drop(BaselineOf(DEFAULT_BASELINE_DAYS, "hrv_rmssd_milli"), TRUE)

\* The list a run returns that is given the computed baseline, no query failing
ListOnComputed ==
    (IF IsNone(HrvDropOnComputed.value) THEN <<>> ELSE <<Val(HrvDropOnComputed.value)>>)
        \o FlagsOfRules(2, Len(CheckerKeys))

\* A run entered without a baseline has returned, no query having failed.
ReturnedWithoutBaseline == pc = "returned" /\ IsNone(hrv_baseline) /\ faulted = {}

\* C20 as claimed: a run entered without a baseline returns what a run given
\* the baseline computed from the current records returns.
C20_ComputesBaselineItself == ReturnedWithoutBaseline => flags = ListOnComputed

\* C20 amended: a run entered without a baseline computes none; it returns
\* the flags of the other four rules and never hrv_drop, which is the list of
\* a run given the computed baseline only if hrv_drop does not fire on it.
C20_NoBaselineNoHrvDrop ==
    ReturnedWithoutBaseline =>
        /\ ~HasFlag("hrv_drop")
        /\ flags = FlagsOfRules(2, Len(CheckerKeys))
        /\ flags = ListOnComputed <=> IsNone(HrvDropOnComputed.value)

\* C20 witness: a run without a baseline returned the flags of other rules
\* over records on which hrv_drop fires once the baseline is computed.
C20_Witness ==
    /\ ReturnedWithoutBaseline
    /\ ~IsNone(HrvDropOnComputed.value)
    /\ Len(flags) >= 2

---------------------------------------------------------------------------
(* The log of a run, checked under Spec *)

\* The log a run leaves in which exactly the rules of S faulted: one warning
\* for each, in rule order, built from the exception alone.
LogOfFaults(S) == [n \in 1..Cardinality(S) |-> Warning(StorageFault)]

\* C22 as claimed: one warning is logged for each fault and the warnings name
\* the rules that failed, so the log of a returned run is the log of no other
\* set of faulting rules.
C22_LogTellsFaultingRules ==
    pc = "returned" =>
        /\ Len(log) = Cardinality(faulted)
        /\ \A S \in SUBSET Range(CheckerKeys) : log = LogOfFaults(S) => S = faulted

---------------------------------------------------------------------------
(* Direct calls of the baseline functions over drawn recovery tables *)

\* A recovery row whose score object held hrv and rhr (either may be None).
RecoveryRow(t, hrv, rhr) ==
    [cycle_id |-> t, created_at |-> t, recovery_score |-> None,
     hrv_rmssd_milli |-> hrv, resting_heart_rate |-> rhr, skin_temp_celsius |-> None]

\* The table holding, for each timestamp t, the row pick[t] or no row.
TableOf(pick) == {RecoveryRow(t, pick[t][1], pick[t][2]) : t \in {u \in DOMAIN pick : pick[u] # <<>>}}

\* Days at which the drawn tables hold a row, relative to now = 0: before, at
\* and after the 30-day cutoff, at the 1-day cutoff, at now and after now (an
\* upstream clock ahead of the local one).
BaselineStamps == {-31, -30, -1, 0, 1}

\* What a drawn row holds as <<hrv, rhr>>: unscored, scored, or scored without HRV.
BaselinePicks ==
    { <<None, None>>, <<Some(70), Some(50)>>, <<Some(71), Some(50)>>,
      <<Some(70), Some(53)>>, <<Some(71), Some(53)>>, <<None, Some(53)>> }

\* The window lengths the functions are called with; 30 is the default.
BaselineDays == {1, DEFAULT_BASELINE_DAYS}

InitBaseline ==
    /\ now = 0
    /\ \E pick \in [BaselineStamps -> BaselinePicks \cup {<<>>}] : recoveries = TableOf(pick)
    /\ cycles = {} /\ sleeps = {} /\ workouts = {}
    /\ pc = "idle" /\ hrv_baseline = None /\ i = 0
    /\ flags = <<>> /\ log = <<>> /\ faulted = {}
    /\ ret = [fn |-> "none"]
    /\ InitPeriphery

\* A call get_hrv_baseline(days); rows: the rows its query returned
CallGetHrvBaseline ==
    /\ \E days \in BaselineDays, dbOk \in BOOLEAN :
         ret' = [fn |-> "get_hrv_baseline", field |-> "hrv_rmssd_milli",
                 days |-> days, dbOk |-> dbOk,
                 rows |-> IF dbOk THEN Range(BaselineRows(days, "hrv_rmssd_milli")) ELSE {},
                 out |-> get_hrv_baseline(days, dbOk)]
    /\ UNCHANGED <<now, periphery, store, run>>

\* A call get_rhr_baseline(days)
CallGetRhrBaseline ==
    /\ \E days \in BaselineDays, dbOk \in BOOLEAN :
         ret' = [fn |-> "get_rhr_baseline", field |-> "resting_heart_rate",
                 days |-> days, dbOk |-> dbOk,
                 rows |-> IF dbOk THEN Range(BaselineRows(days, "resting_heart_rate")) ELSE {},
                 out |-> get_rhr_baseline(days, dbOk)]
    /\ UNCHANGED <<now, periphery, store, run>>

NextBaseline == CallGetHrvBaseline \/ CallGetRhrBaseline

SpecBaseline == InitBaseline /\ [][NextBaseline]_vars

\* A baseline function has been called and its query reached the storage layer.
BaselineCalled == ret.fn \in {"get_hrv_baseline", "get_rhr_baseline"} /\ ret.dbOk

\* The rows of the call's window carrying the selected field: no older than
\* the cutoff now - days, however late.
Qualifying == {r \in recoveries : ~IsNone(r[ret.field]) /\ r.created_at >= now - ret.days}

\* The same with the window closed at now: [now - days, now).
QualifyingBeforeNow == {r \in Qualifying : r.created_at < now}

RECURSIVE SumOver(_, _)
SumOver(S, f) ==
    IF S = {} THEN 0
    ELSE LET r == CHOOSE x \in S : TRUE IN Val(r[f]) + SumOver(S \ {r}, f)

Abs(x) == IF x < 0 THEN -x ELSE x

C7_HalfOpenWindow == BaselineCalled => ret.rows = QualifyingBeforeNow

\* C7 amended: the rows that enter the mean are those carrying the field and
\* stamped at or after now - days; the window has no upper end.
C7_WindowFromCutoff == BaselineCalled => ret.rows = Qualifying

\* C7 witness: a row stamped exactly at the cutoff and a row stamped after
\* now both enter the mean, a row before the cutoff does not.
C7_Witness ==
    /\ BaselineCalled
    /\ \E r \in ret.rows : r.created_at = now - ret.days
    /\ \E r \in ret.rows : r.created_at > now
    /\ \E r \in recoveries \ ret.rows : ~IsNone(r[ret.field])

---------------------------------------------------------------------------
(* Direct calls of check_hrv_drop over drawn recovery tables *)

\* Days of the drawn rows, relative to now = 0: before and at the cutoff of
\* the rule's window of HRV_DROP_CONSECUTIVE_DAYS + 2 days, and inside it.
HrvStamps == {-6, -5, -2, -1, 0}

HrvPicks == { <<None, None>>, <<Some(70), None>>, <<Some(75), None>>, <<Some(80), None>>,
              <<Some(85), None>>, <<Some(90), None>> }

\* Baselines the rule is called with: None, 0.0, 100.0 and 94.1.
HrvBaselines == {None, Some(0), Some(1000), Some(941)}

InitHrvDrop ==
    /\ now = 0
    /\ \E pick \in [HrvStamps -> HrvPicks \cup {<<>>}] : recoveries = TableOf(pick)
    /\ cycles = {} /\ sleeps = {} /\ workouts = {}
    /\ pc = "idle" /\ hrv_baseline = None /\ i = 0
    /\ flags = <<>> /\ log = <<>> /\ faulted = {}
    /\ ret = [fn |-> "none"]
    /\ InitPeriphery

\* A call check_hrv_drop(b); recent: the rows its list `recent` held
CallCheckHrvDrop ==
    /\ \E b \in HrvBaselines, dbOk \in BOOLEAN :
         ret' = [fn |-> "check_hrv_drop", b |-> b, dbOk |-> dbOk,
                 field |-> "hrv_rmssd_milli", n |-> HRV_DROP_CONSECUTIVE_DAYS,
                 recent |-> IF dbOk /\ ~Falsy(b)
                            THEN Range(RecentSamples("hrv_rmssd_milli",
                                                     HRV_DROP_CONSECUTIVE_DAYS))
                            ELSE {},
                 out |-> check_hrv_drop(b, dbOk)]
    /\ UNCHANGED <<now, periphery, store, run>>

NextHrvDrop == CallCheckHrvDrop

SpecHrvDrop == InitHrvDrop /\ [][NextHrvDrop]_vars

\* The rows of the rule's window that carry an HRV value
HrvSamples ==
    {r \in recoveries : ~IsNone(r.hrv_rmssd_milli)
                        /\ r.created_at >= now - (HRV_DROP_CONSECUTIVE_DAYS + 2)}

\* The HRV_DROP_CONSECUTIVE_DAYS most recent of them
HrvInspected ==
    {r \in HrvSamples :
        Cardinality({q \in HrvSamples : q.created_at > r.created_at})
            < HRV_DROP_CONSECUTIVE_DAYS}

\* v < b/10 * (1 - 0.15), b in tenths
BelowDropThreshold(v, b) == 1000 * v < (100 - HRV_DROP_THRESHOLD_PCT) * b

HrvDropCalled == ret.fn = "check_hrv_drop" /\ ret.dbOk /\ ~IsNone(ret.b)

---------------------------------------------------------------------------
(* The sampling of check_hrv_drop and check_low_recovery, over drawn tables *)

\* A recovery row whose score object held score, hrv and skin (each may be None).
ScoredRow(t, score, hrv, skin) ==
    [cycle_id |-> t, created_at |-> t, recovery_score |-> score,
     hrv_rmssd_milli |-> hrv, resting_heart_rate |-> None, skin_temp_celsius |-> skin]

\* The table holding, for each timestamp t, the row of pick[t] = <<score, hrv, skin>>
\* or no row.
ScoredTableOf(pick) ==
    {ScoredRow(t, pick[t][1], pick[t][2], pick[t][3]) :
        t \in {u \in DOMAIN pick : pick[u] # <<>>}}

\* Days of the drawn rows, relative to now = 0: one row a day from the day
\* before the cutoff of the N + 2 trailing days up to now.
RecentStamps == {-6, -5, -4, -3, -2, -1, 0}

\* What a drawn row holds as <<score, hrv, skin>>: unscored, a red day with
\* low HRV, a green day.
RecentPicks == { <<None, None, None>>, <<Some(20), Some(70), None>>,
                 <<Some(40), Some(90), None>> }

InitRecent ==
    /\ now = 0
    /\ \E pick \in [RecentStamps -> RecentPicks \cup {<<>>}] :
         recoveries = ScoredTableOf(pick)
    /\ cycles = {} /\ sleeps = {} /\ workouts = {}
    /\ pc = "idle" /\ hrv_baseline = None /\ i = 0
    /\ flags = <<>> /\ log = <<>> /\ faulted = {}
    /\ ret = [fn |-> "none"]
    /\ InitPeriphery

\* A call check_low_recovery(); recent: the rows its list `recent` held
CallCheckLowRecovery ==
    /\ \E dbOk \in BOOLEAN :
         ret' = [fn |-> "check_low_recovery", b |-> None, dbOk |-> dbOk,
                 field |-> "recovery_score", n |-> LOW_RECOVERY_CONSECUTIVE_DAYS,
                 recent |-> IF dbOk
                            THEN Range(RecentSamples("recovery_score",
                                                     LOW_RECOVERY_CONSECUTIVE_DAYS))
                            ELSE {},
                 out |-> check_low_recovery(dbOk)]
    /\ UNCHANGED <<now, periphery, store, run>>

NextRecent == CallCheckHrvDrop \/ CallCheckLowRecovery

SpecRecent == InitRecent /\ [][NextRecent]_vars

\* One of the two rules has been called and has queried the table.
RecentCalled ==
    \/ ret.fn = "check_hrv_drop" /\ ret.dbOk /\ ~Falsy(ret.b)
    \/ ret.fn = "check_low_recovery" /\ ret.dbOk

\* The n most recent rows of S
MostRecent(S, n) ==
    {r \in S : Cardinality({q \in S : q.created_at > r.created_at}) < n}

\* The rows the rule compares against its threshold: its list `recent` once
\* it holds N rows, none before.
InspectedRows == IF Cardinality(ret.recent) = ret.n THEN ret.recent ELSE {}

\* The rows of W that carry the rule's field
SamplesIn(W) == {r \in W : ~IsNone(r[ret.field])}

\* The N + 2 most recent recovery records
NewestRecords == MostRecent(recoveries, ret.n + 2)

\* The recovery records of the N + 2 trailing days
TrailingDays == {r \in recoveries : r.created_at >= now - (ret.n + 2)}

\* The rule draws its samples from the pool W: with fewer than N samples in W
\* it returns no flag and inspects nothing, otherwise it inspects the N most
\* recent samples of W.
DrawsFrom(W) ==
    /\ Cardinality(SamplesIn(W)) < ret.n =>
          ret.out = Returned(None) /\ InspectedRows = {}
    /\ Cardinality(SamplesIn(W)) >= ret.n =>
          InspectedRows = MostRecent(SamplesIn(W), ret.n)

---------------------------------------------------------------------------
(* Direct calls of check_low_recovery over drawn recovery tables *)

\* Days of the drawn rows, relative to now = 0: before and at the cutoff of
\* the rule's window of LOW_RECOVERY_CONSECUTIVE_DAYS + 2 days, and inside it.
LowStamps == {-6, -5, -2, -1, 0}

\* Scores around the threshold of 33, and an unscored row.
LowPicks == { <<None, None, None>>, <<Some(20), None, None>>, <<Some(25), None, None>>,
              <<Some(30), None, None>>, <<Some(32), None, None>>,
              <<Some(33), None, None>>, <<Some(40), None, None>> }

InitLowRecovery ==
    /\ now = 0
    /\ \E pick \in [LowStamps -> LowPicks \cup {<<>>}] : recoveries = ScoredTableOf(pick)
    /\ cycles = {} /\ sleeps = {} /\ workouts = {}
    /\ pc = "idle" /\ hrv_baseline = None /\ i = 0
    /\ flags = <<>> /\ log = <<>> /\ faulted = {}
    /\ ret = [fn |-> "none"]
    /\ InitPeriphery

NextLowRecovery == CallCheckLowRecovery

SpecLowRecovery == InitLowRecovery /\ [][NextLowRecovery]_vars

LowRecoveryCalled == ret.fn = "check_low_recovery" /\ ret.dbOk

\* The scored rows of the rule's window
ScoreSamples ==
    {r \in recoveries : ~IsNone(r.recovery_score)
                        /\ r.created_at >= now - (LOW_RECOVERY_CONSECUTIVE_DAYS + 2)}

ScoresInspected == MostRecent(ScoreSamples, LOW_RECOVERY_CONSECUTIVE_DAYS)

\* C24: when the rule flags, scores has length N and its k-th entry is the
\* score of the k-th most recent inspected row, as stored.
C24_ScoresMostRecentFirst ==
    LowRecoveryCalled /\ ~IsNone(ret.out.value) =>
        LET scores == Val(ret.out.value).data.scores
        IN  /\ Len(scores) = LOW_RECOVERY_CONSECUTIVE_DAYS
            /\ Cardinality(ScoresInspected) = LOW_RECOVERY_CONSECUTIVE_DAYS
            /\ \A r \in ScoresInspected :
                  scores[1 + Cardinality({q \in ScoresInspected :
                                             q.created_at > r.created_at})]
                      = Val(r.recovery_score)

\* C24 witness: the inspected scores are, most recent first, 30, 20, 25, with
\* an unscored row among them and a scored row before the window.
C24_Witness ==
    /\ LowRecoveryCalled /\ ~IsNone(ret.out.value)
    /\ Val(ret.out.value).data.scores = <<30, 20, 25>>
    /\ \E r \in recoveries : IsNone(r.recovery_score) /\ r.created_at >= now - 2
    /\ \E r \in recoveries \ ScoreSamples : ~IsNone(r.recovery_score)

---------------------------------------------------------------------------
(* Direct calls of check_strain_overload over drawn cycle and recovery tables *)

\* A cycle row whose score object held strain (None: an unscored cycle).
CycleRow(t, strain) == [id |-> t, start |-> t, strain_score |-> strain]

\* The days from now - 4 to now - 1 hold a cycle of strain 14.0 and a recovery
\* of score 50; the rows of the other days are drawn.
StrainFixedStamps == {-4, -3, -2, -1}

\* Days of the drawn rows: before the cutoff of the trailing
\* STRAIN_OVERLOAD_DAYS days, at the cutoff, and now.
StrainStamps == {-6, -5, 0}

\* Strain of a drawn cycle, in tenths: unscored, 0, 13.9, 14.0
StrainPicks == {None, Some(0), Some(139), Some(140)}

\* Score of a drawn recovery: unscored, 0, 66, 67
StrainScorePicks == {None, Some(0), Some(66), Some(67)}

InitStrain ==
    /\ now = 0
    /\ \E cp \in [StrainStamps -> StrainPicks \cup {<<0, 0>>}] :
         cycles = {CycleRow(t, Some(140)) : t \in StrainFixedStamps}
                  \cup {CycleRow(t, cp[t]) : t \in {u \in StrainStamps : cp[u] # <<0, 0>>}}
    /\ \E rp \in [StrainStamps -> StrainScorePicks \cup {<<0, 0>>}] :
         recoveries = {ScoredRow(t, Some(50), None, None) : t \in StrainFixedStamps}
                      \cup {ScoredRow(t, rp[t], None, None) :
                               t \in {u \in StrainStamps : rp[u] # <<0, 0>>}}
    /\ sleeps = {} /\ workouts = {}
    /\ pc = "idle" /\ hrv_baseline = None /\ i = 0
    /\ flags = <<>> /\ log = <<>> /\ faulted = {}
    /\ ret = [fn |-> "none"]
    /\ InitPeriphery

\* A call check_strain_overload()
CallCheckStrainOverload ==
    /\ \E dbOk \in BOOLEAN :
         ret' = [fn |-> "check_strain_overload", dbOk |-> dbOk,
                 out |-> check_strain_overload(dbOk)]
    /\ UNCHANGED <<now, periphery, store, run>>

NextStrain == CallCheckStrainOverload

SpecStrain == InitStrain /\ [][NextStrain]_vars

StrainCalled == ret.fn = "check_strain_overload" /\ ret.dbOk

\* The strain-bearing cycles and the scored recoveries of the trailing D days,
\* newest first
StrainCycles ==
    OrderByDesc({c \in cycles : ~IsNone(c.strain_score)
                                /\ c.start >= now - STRAIN_OVERLOAD_DAYS}, "start")

StrainRecoveries ==
    OrderByDesc({r \in recoveries : ~IsNone(r.recovery_score)
                                    /\ r.created_at >= now - STRAIN_OVERLOAD_DAYS},
                "created_at")

\* C13 as claimed: the rule flags exactly if the window holds D strain-bearing
\* cycles and D scored recoveries and each of the D most recent pairs, taken
\* by position, has strain >= 14 and recovery score < 67, whatever the values.
C13_FlagIffAllPairsOverloaded ==
    StrainCalled =>
        /\ ret.out.kind = "return"
        /\ ~IsNone(ret.out.value) <=>
              /\ Len(StrainCycles) >= STRAIN_OVERLOAD_DAYS
              /\ Len(StrainRecoveries) >= STRAIN_OVERLOAD_DAYS
              /\ \A k \in 1..STRAIN_OVERLOAD_DAYS :
                    /\ Val(StrainCycles[k].strain_score) >= 140
                    /\ Val(StrainRecoveries[k].recovery_score) < 67

\* The ways to pair the D most recent recoveries with the D most recent cycles
Pairings ==
    {p \in [1..STRAIN_OVERLOAD_DAYS -> 1..STRAIN_OVERLOAD_DAYS] :
        \A j, k \in 1..STRAIN_OVERLOAD_DAYS : p[j] = p[k] => j = k}

\* A recovery passes the rule's test of a low score: next to a cycle of high
\* strain it makes an overloaded day.
QualifiesLow(r) == Overloaded(CycleRow(0, Some(140)), r)

StrainFired == StrainCalled /\ ~IsNone(ret.out.value)

---------------------------------------------------------------------------
(* Direct calls of check_sleep_debt over drawn sleep tables *)

\* A sleep row whose score object held debt (None: no sleep_debt_milli stored).
SleepRow(t, debt) == [id |-> t, end |-> t, sleep_debt_milli |-> debt]

\* Days of the drawn rows, relative to now = 0: before and at the cutoff of
\* the trailing SLEEP_DEBT_WINDOW_DAYS days, and inside the window.
SleepStamps == {-6, -5, -2, -1, 0}

\* Debt of a drawn row, in ms: none stored, 0.83 h, exactly 2.0 h, 1 ms more, 2.5 h
SleepPicks == {None, Some(3000000), Some(7200000), Some(7200001), Some(9000000)}

SleepRowsDrawn == {SleepRow(t, d) : t \in SleepStamps, d \in SleepPicks}

InitSleepDebt ==
    /\ now = 0
    /\ \E pick \in [SleepStamps -> SleepPicks \cup {<<0, 0>>}] :
         sleeps = {SleepRow(t, pick[t]) : t \in {u \in SleepStamps : pick[u] # <<0, 0>>}}
    /\ recoveries = {} /\ cycles = {} /\ workouts = {}
    /\ pc = "idle" /\ hrv_baseline = None /\ i = 0
    /\ flags = <<>> /\ log = <<>> /\ faulted = {}
    /\ ret = [fn |-> "none"]
    /\ InitPeriphery

\* A call check_sleep_debt()
CallCheckSleepDebt ==
    /\ \E dbOk \in BOOLEAN :
         ret' = [fn |-> "check_sleep_debt", dbOk |-> dbOk, out |-> check_sleep_debt(dbOk)]
    /\ UNCHANGED <<now, periphery, store, run>>

NextSleepDebt == CallCheckSleepDebt

SpecSleepDebt == InitSleepDebt /\ [][NextSleepDebt]_vars

SleepDebtCalled == ret.fn = "check_sleep_debt" /\ ret.dbOk

\* The rows of table T in the trailing window that carry a debt
DebtSamples(T) ==
    {s \in T : ~IsNone(s.sleep_debt_milli) /\ s.end >= now - SLEEP_DEBT_WINDOW_DAYS}

\* The most recent of them, as a set: empty or one row
LatestDebt(T) == {s \in DebtSamples(T) : \A q \in DebtSamples(T) : q.end <= s.end}

C15_OnlyLatestMatters ==
    SleepDebtCalled =>
        \A t \in SleepStamps :
            \A T \in {{s \in sleeps : s.end # t}}
                     \cup {{s \in sleeps : s.end # t} \cup {r} :
                              r \in {q \in SleepRowsDrawn : q.end = t}} :
                LatestDebt(T) = LatestDebt(sleeps) =>
                    SleepDebtVerdict(T, TRUE) = ret.out

\* C15 witness: the rule has flagged although an older row of the window
\* carries a debt below the threshold; a row before the window and a later
\* row without debt are present as well.
C15_Witness ==
    /\ SleepDebtCalled /\ ~IsNone(ret.out.value)
    /\ \E s \in LatestDebt(sleeps) :
          /\ \E q \in DebtSamples(sleeps) :
                q.end < s.end /\ Val(q.sleep_debt_milli) = 3000000
          /\ \E q \in sleeps : q.end > s.end /\ IsNone(q.sleep_debt_milli)
    /\ \E q \in sleeps : q.end < now - SLEEP_DEBT_WINDOW_DAYS /\ ~IsNone(q.sleep_debt_milli)

---------------------------------------------------------------------------
(* Direct calls of check_skin_temp_spike over drawn recovery tables *)

\* Days of the drawn rows, relative to now = 0: before and at the cutoff of
\* the trailing SKIN_TEMP_WINDOW_DAYS days, and inside the window.
SkinStamps == {-15, -14, -3, -2, -1, 0}

\* Skin temperature of a drawn row, in hundredths: none, 33.0, 33.5, 34.0
SkinPicks == { <<None, None, None>>, <<None, None, Some(3300)>>,
               <<None, None, Some(3350)>>, <<None, None, Some(3400)>> }

InitSkinTemp ==
    /\ now = 0
    /\ \E pick \in [SkinStamps -> SkinPicks \cup {<<>>}] : recoveries = ScoredTableOf(pick)
    /\ cycles = {} /\ sleeps = {} /\ workouts = {}
    /\ pc = "idle" /\ hrv_baseline = None /\ i = 0
    /\ flags = <<>> /\ log = <<>> /\ faulted = {}
    /\ ret = [fn |-> "none"]
    /\ InitPeriphery

\* A call check_skin_temp_spike()
CallCheckSkinTempSpike ==
    /\ \E dbOk \in BOOLEAN :
         ret' = [fn |-> "check_skin_temp_spike", dbOk |-> dbOk,
                 out |-> check_skin_temp_spike(dbOk)]
    /\ UNCHANGED <<now, periphery, store, run>>

NextSkinTemp == CallCheckSkinTempSpike

SpecSkinTemp == InitSkinTemp /\ [][NextSkinTemp]_vars

SkinTempCalled == ret.fn = "check_skin_temp_spike" /\ ret.dbOk

\* The rows of the trailing 14 days that carry a skin temperature
SkinSamples ==
    {r \in recoveries : ~IsNone(r.skin_temp_celsius)
                        /\ r.created_at >= now - SKIN_TEMP_WINDOW_DAYS}

\* The most recent of them, and the others
SkinLatest == MostRecent(SkinSamples, 1)
SkinOthers == SkinSamples \ SkinLatest

\* latest - mean(others) > SKIN_TEMP_SPIKE_C, multiplied by the number of others
SpikeOver(latest, others) ==
    Val(latest.skin_temp_celsius) * Cardinality(others)
        - SumOver(others, "skin_temp_celsius")
      > SKIN_TEMP_SPIKE_C * Cardinality(others)

---------------------------------------------------------------------------
(* run_all_checks evaluated again and again over one table state *)

\* The tables after the syncs of the days 0 .. MaxNow, day t reporting pick[t].
SyncedCycles(pick) ==
    UNION {SyncCycle({}, [id |-> t, start |-> t, score |-> pick[t].cycle]) :
              t \in DOMAIN pick}

SyncedRecoveries(pick) ==
    UNION {SyncRecovery({}, [cycle_id |-> t, created_at |-> t, score |-> pick[t].recovery]) :
              t \in DOMAIN pick}

SyncedSleeps(pick) ==
    UNION {SyncSleep({}, [id |-> t, end |-> t, score |-> pick[t].sleep]) :
              t \in DOMAIN pick}

SyncedWorkouts(pick) ==
    UNION {SyncWorkout({}, [id |-> t, start |-> t, score |-> pick[t].workout]) :
              t \in DOMAIN pick}

\* Histories of the drawn tables: one kind of day up to the day before
\* yesterday, then yesterday and today of any kind.
TwicePicks ==
    {[t \in 0..MaxNow |-> IF t = MaxNow THEN d3 ELSE IF t = MaxNow - 1 THEN d2 ELSE d1] :
        d1 \in UpstreamDays, d2 \in UpstreamDays, d3 \in UpstreamDays}

InitTwice ==
    /\ now = MaxNow
    /\ \E pick \in TwicePicks :
         /\ cycles = SyncedCycles(pick)
         /\ recoveries = SyncedRecoveries(pick)
         /\ sleeps = SyncedSleeps(pick)
         /\ workouts = SyncedWorkouts(pick)
    /\ pc = "idle" /\ hrv_baseline = None /\ i = 0
    /\ flags = <<>> /\ log = <<>> /\ faulted = {}
    /\ ret = [fn |-> "none"]
    /\ InitPeriphery

\* The caller keeps the list it was returned (`flags = run_all_checks(...)`);
\* the frame of the finished call is left as it was.
CallerKeeps ==
    /\ pc = "returned"
    /\ pc' = "idle"
    /\ ret' = [fn |-> "run_all_checks", b |-> hrv_baseline, faulted |-> faulted,
               flags |-> flags]
    /\ UNCHANGED <<now, periphery, store, hrv_baseline, i, flags, log, faulted>>

NextTwice == CallRunAllChecks \/ RunChecker \/ ReturnFlags \/ CallerKeeps

SpecTwice == InitTwice /\ [][NextTwice]_vars

\* A call has returned, and the call before it was made with the same
\* baseline and had the same of its queries answered; tables and clock are
\* the same throughout.
SecondEvaluation ==
    /\ pc = "returned" /\ ret.fn = "run_all_checks"
    /\ ret.b = hrv_baseline /\ ret.faulted = faulted

---------------------------------------------------------------------------
(* run_all_checks beside a writer in another process *)

\* build_morning_message: the caller computes the baseline in a session of
\* its own and enters run_all_checks with it.  seen: the table states read so
\* far by the queries of this evaluation.
CallBuildMorningMessage ==
    /\ pc = "idle"
    /\ hrv_baseline' = BaselineOf(DEFAULT_BASELINE_DAYS, "hrv_rmssd_milli")
    /\ pc' = "running" /\ i' = 1
    /\ flags' = <<>> /\ log' = <<>> /\ faulted' = {}
    /\ ret' = [fn |-> "build_morning_message", seen |-> {store}]
    /\ UNCHANGED <<now, periphery, store>>

\* `python -m whoop.sync` run from a shell while the bot is up: sync_all in a
\* process of its own, committing while an evaluation of the bot is under way.
\* (Run while the bot is idle it is no different from SyncAll.)
ExternalSync ==
    /\ pc = "running"
    /\ \E d \in UpstreamDays :
         /\ cycles' = SyncCycle(cycles, [id |-> now, start |-> now, score |-> d.cycle])
         /\ recoveries' = SyncRecovery(recoveries,
                              [cycle_id |-> now, created_at |-> now, score |-> d.recovery])
         /\ sleeps' = SyncSleep(sleeps, [id |-> now, end |-> now, score |-> d.sleep])
         /\ workouts' = SyncWorkout(workouts, [id |-> now, start |-> now, score |-> d.workout])
    /\ UNCHANGED <<now, periphery, run, ret>>

\* One iteration of the loop, each rule querying in a session of its own
\* (get_db per query); check_hrv_drop issues no query on a falsy baseline.
RunCheckerObserved ==
    /\ CheckerStep
    /\ ret' = IF i = 1 /\ Falsy(hrv_baseline) THEN ret
              ELSE [ret EXCEPT !.seen = @ \cup {store}]
    /\ UNCHANGED <<now, periphery, store, hrv_baseline>>

\* The caller has consumed the result.
CallerDoneObserved ==
    /\ pc \in {"returned", "raised"}
    /\ pc' = "idle" /\ hrv_baseline' = None /\ i' = 0
    /\ flags' = <<>> /\ log' = <<>> /\ faulted' = {}
    /\ ret' = [fn |-> "none"]
    /\ UNCHANGED <<now, periphery, store>>

NextConcurrent ==
    \/ Tick \/ SyncAll \/ ExternalSync
    \/ CallBuildMorningMessage \/ RunCheckerObserved \/ ReturnFlags \/ CallerDoneObserved

SpecConcurrent == Init /\ [][NextConcurrent]_vars

\* C18 as claimed: the baseline and the five rules of one evaluation read one
\* and the same state of the tables, whatever a concurrent sync commits.
C18_SingleSnapshot ==
    ret.fn = "build_morning_message" => Cardinality(ret.seen) <= 1

---------------------------------------------------------------------------
(* Direct calls of each of the five rules over synced tables *)

\* The tables after the syncs of the days 0 .. MaxNow, each day of any kind.
InitRules ==
    /\ now = MaxNow
    /\ \E pick \in [0..MaxNow -> UpstreamDays] :
         /\ cycles = SyncedCycles(pick)
         /\ recoveries = SyncedRecoveries(pick)
         /\ sleeps = SyncedSleeps(pick)
         /\ workouts = SyncedWorkouts(pick)
    /\ pc = "idle" /\ hrv_baseline = None /\ i = 0
    /\ flags = <<>> /\ log = <<>> /\ faulted = {}
    /\ ret = [fn |-> "none"]
    /\ InitPeriphery

NextRules ==
    \/ CallCheckHrvDrop \/ CallCheckLowRecovery \/ CallCheckSleepDebt
    \/ CallCheckSkinTempSpike \/ CallCheckStrainOverload

SpecRules == InitRules /\ [][NextRules]_vars

\* The key each rule writes into the Flag it builds
RuleKey ==
    [check_hrv_drop |-> "hrv_drop", check_low_recovery |-> "low_recovery",
     check_sleep_debt |-> "sleep_debt", check_skin_temp_spike |-> "skin_temp",
     check_strain_overload |-> "strain_overload"]

\* C21: a rule that returns, returns None or one Flag; the Flag carries the
\* key of the rule that built it, one of the five, and severity warn or alert.
C21_OneFlagOfOwnKey ==
    ret.fn \in DOMAIN RuleKey /\ ret.out.kind = "return" =>
        \/ IsNone(ret.out.value)
        \/ /\ Len(ret.out.value) = 1
           /\ Val(ret.out.value).key = RuleKey[ret.fn]
           /\ Val(ret.out.value).key \in Range(CheckerKeys)
           /\ Val(ret.out.value).severity \in {"warn", "alert"}

\* C21 witness: check_sleep_debt has returned a Flag of severity warn.
C21_Witness ==
    /\ ret.fn = "check_sleep_debt" /\ ret.out.kind = "return"
    /\ ~IsNone(ret.out.value)
    /\ Val(ret.out.value).key = "sleep_debt" /\ Val(ret.out.value).severity = "warn"

---------------------------------------------------------------------------
(* The evidence of hrv_drop, over drawn recovery tables *)

\* HRV values below 85 % of the baselines 100.0 and 94.1, and an unscored row.
EvidencePicks == { <<None, None>>, <<Some(70), None>>, <<Some(72), None>>,
                   <<Some(75), None>>, <<Some(80), None>> }

InitHrvEvidence ==
    /\ now = 0
    /\ \E pick \in [HrvStamps -> EvidencePicks \cup {<<>>}] : recoveries = TableOf(pick)
    /\ cycles = {} /\ sleeps = {} /\ workouts = {}
    /\ pc = "idle" /\ hrv_baseline = None /\ i = 0
    /\ flags = <<>> /\ log = <<>> /\ faulted = {}
    /\ ret = [fn |-> "none"]
    /\ InitPeriphery

NextHrvEvidence == CallCheckHrvDrop

SpecHrvEvidence == InitHrvEvidence /\ [][NextHrvEvidence]_vars

HrvDropFired == HrvDropCalled /\ ret.out.kind = "return" /\ ~IsNone(ret.out.value)

\* d (in tenths) is the tenth nearest to num / den
NearestTenth(d, num, den) == 2 * Abs(10 * num - d * den) <= den

\* What the evidence holds apart from drop_pct: avg_hrv is the mean of the
\* inspected values to the nearest tenth and baseline the argument; 100.0 and
\* [70, 75, 80] give avg 75.0 and drop_pct 25.0; drop_pct is positive.
HrvEvidenceBasics ==
    LET data == Val(ret.out.value).data
        sum  == SumOver(HrvInspected, "hrv_rmssd_milli")
    IN  /\ NearestTenth(data.avg_hrv, sum, HRV_DROP_CONSECUTIVE_DAYS)
        /\ data.baseline = Val(ret.b)
        /\ data.drop_pct > 0
        /\ (Val(ret.b) = 1000 /\ {Val(r.hrv_rmssd_milli) : r \in HrvInspected} = {70, 75, 80})
              => data.avg_hrv = 750 /\ data.drop_pct = 250

---------------------------------------------------------------------------
(* The WhoopClient of one sync_all, src/whoop/client.py *)

\* The coroutines handed to asyncio.gather (sync.py:153-158)
Fetches == {"get_cycles", "get_recovery", "get_sleep", "get_workouts"}

\* Tokens are numbered by the refresh that issued them: 0 is the one read from
\* the environment.  A client record:
\*   state          "open" between __aenter__ and __aexit__, then "closed"
\*   access_token   self._access_token
\*   refresh_token  self._refresh_token (None when the variable is unset)
\*   refreshed      self._refreshed
\*   lock           self._refresh_lock: its holder, or None
\*   refresh_calls  history: calls of refresh_tokens
\*   reauth_dms     history: messages sent by _notify_reauth_required
\*   task           per coroutine: its position in _get, the GET requests it has
\*                  sent, the token of the last one, whether the first got 401
NewTask == [pc |-> "start", sent |-> 0, bearer |-> None, got401 |-> FALSE]

WhoopClient(refresh_token) ==
    [state |-> "open", access_token |-> 0, refresh_token |-> refresh_token,
     refreshed |-> FALSE, lock |-> None, refresh_calls |-> 0, reauth_dms |-> 0,
     task |-> [t \in Fetches |-> NewTask]]

\* self._client.get(path, headers=self._auth_headers(), ...), up to its await:
\* a closed httpx client refuses to send.
SendGet(c, t, next) ==
    IF c.state = "closed"
    THEN [c EXCEPT !.task[t].pc = "raised"]
    ELSE [c EXCEPT !.task[t].pc = next,
                   !.task[t].sent = @ + 1,
                   !.task[t].bearer = Some(c.access_token)]

\* _refresh_if_needed from the moment the lock is held, up to its first await
\* or its return; a return of True leads _get to its second request.
WithLock(c, t) ==
    IF c.refreshed
    THEN SendGet(c, t, "get2")
    ELSE [c EXCEPT !.lock = Some(t),
                   !.refresh_calls = @ + 1,
                   !.task[t].pc = "refreshing"]

\* _get after its first response: _refresh_if_needed, then either the second
\* request or raise_for_status.
AfterFirstResponse(c, t, status) ==
    IF status # 401 \/ IsNone(c.refresh_token)
    THEN [c EXCEPT !.task[t].pc = IF status = 200 THEN "returned" ELSE "raised",
                   !.task[t].got401 = (status = 401)]
    ELSE LET d == [c EXCEPT !.task[t].got401 = TRUE]
         IN  IF IsNone(d.lock) THEN WithLock(d, t)
             ELSE [d EXCEPT !.task[t].pc = "waiting"]

\* What a request can come back with: success, 401, or any other failure.
Statuses == {200, 401, 500}

InitClient ==
    /\ now = 0
    /\ recoveries = {} /\ cycles = {} /\ sleeps = {} /\ workouts = {}
    /\ pc = "idle" /\ hrv_baseline = None /\ i = 0
    /\ flags = <<>> /\ log = <<>> /\ faulted = {}
    /\ ret = [fn |-> "none"]
    /\ \E rt \in {None, Some(0)} : client = WhoopClient(rt)
    /\ journal = NoJournal /\ job = NoJob

\* A coroutine of the gather runs to its first await: the first request of _get.
StartGet ==
    /\ \E t \in Fetches :
         /\ client.task[t].pc = "start"
         /\ client' = SendGet(client, t, "get1")
    /\ UNCHANGED <<now, store, run, ret, journal, job>>

\* The first response arrives.
FirstResponse ==
    /\ \E t \in Fetches, status \in Statuses :
         /\ client.task[t].pc = "get1"
         /\ client' = AfterFirstResponse(client, t, status)
    /\ UNCHANGED <<now, store, run, ret, journal, job>>

\* A coroutine waiting in `async with self._refresh_lock` gets the lock.
AcquireLock ==
    /\ \E t \in Fetches :
         /\ client.task[t].pc = "waiting"
         /\ IsNone(client.lock)
         /\ client' = WithLock(client, t)
    /\ UNCHANGED <<now, store, run, ret, journal, job>>

\* refresh_tokens comes back: with new tokens, with HTTP 400, or with another
\* failure.  The lock is released on every way out of the `async with`.
RefreshResponse ==
    /\ \E t \in Fetches, outcome \in {"tokens", "http400", "failed"} :
         /\ client.task[t].pc = "refreshing"
         /\ client' =
              CASE outcome = "tokens" ->
                     SendGet([client EXCEPT !.access_token = client.refresh_calls,
                                            !.refresh_token = Some(client.refresh_calls),
                                            !.refreshed = TRUE,
                                            !.lock = None], t, "get2")
                [] outcome = "http400" ->
                     [client EXCEPT !.reauth_dms = @ + 1,
                                    !.lock = None,
                                    !.task[t].pc = "raised"]
                [] outcome = "failed" ->
                     [client EXCEPT !.lock = None, !.task[t].pc = "raised"]
    /\ UNCHANGED <<now, store, run, ret, journal, job>>

\* The second response arrives: raise_for_status, return resp.json().
SecondResponse ==
    /\ \E t \in Fetches, status \in Statuses :
         /\ client.task[t].pc = "get2"
         /\ client' = [client EXCEPT !.task[t].pc =
                          IF status = 200 THEN "returned" ELSE "raised"]
    /\ UNCHANGED <<now, store, run, ret, journal, job>>

\* The gather is over for sync_all once every coroutine has returned or one
\* has raised; the others are left running.  `async with` closes the client.
AExit ==
    /\ client.state = "open"
    /\ \/ \A t \in Fetches : client.task[t].pc = "returned"
       \/ \E t \in Fetches : client.task[t].pc = "raised"
    /\ client' = [client EXCEPT !.state = "closed"]
    /\ UNCHANGED <<now, store, run, ret, journal, job>>

NextClient ==
    StartGet \/ FirstResponse \/ AcquireLock \/ RefreshResponse \/ SecondResponse \/ AExit

SpecClient == InitClient /\ [][NextClient]_vars

\* C25: one client calls refresh_tokens at most once; a request that got 401
\* and was sent again carries the refreshed access token; one _get sends at
\* most two requests.
C25_SingleRefresh ==
    /\ client.refresh_calls <= 1
    /\ \A t \in Fetches :
         /\ client.task[t].sent <= 2
         /\ client.task[t].sent = 2 =>
              /\ client.task[t].got401
              /\ client.refreshed
              /\ client.task[t].bearer = Some(client.access_token)

---------------------------------------------------------------------------
(* sync_all over fetched batches, src/whoop/sync.py *)

\* The body of the loop of the _sync_* function of a table
SyncOne(kind, table, r) ==
    CASE kind = "cycles"   -> SyncCycle(table, r)
      [] kind = "recovery" -> SyncRecovery(table, r)
      [] kind = "sleep"    -> SyncSleep(table, r)
      [] kind = "workouts" -> SyncWorkout(table, r)

\* One _sync_* function over the fetched records of its table.  The session
\* does not autoflush (database.py:8), so the lookup of each record sees the
\* committed rows only: `pending` holds what the loop hands to db.add, `saved`
\* is the count it returns, and the commit fails when two pending rows have
\* the same key.
SyncRecords(kind, table, records) ==
    LET pending == [k \in DOMAIN records |-> SyncOne(kind, table, records[k]) \ table]
        saved   == Cardinality({k \in DOMAIN records : pending[k] # {}})
        merged[k \in 0..Len(records)] ==
            IF k = 0 THEN table ELSE SyncOne(kind, merged[k - 1], records[k])
    IN  [saved    |-> saved,
         table    |-> merged[Len(records)],
         conflict |-> Cardinality(merged[Len(records)]) # Cardinality(table) + saved]

\* The tables as a record
Tables == [cycles |-> cycles, recovery |-> recoveries, sleep |-> sleeps, workouts |-> workouts]

\* sync_all from the end of the gather: the four _sync_* calls in one session,
\* the commit of get_db, and the returned counts.  `ok` is FALSE when a fetch
\* or the database fails.
sync_all(tables, data, ok) ==
    LET c == SyncRecords("cycles", tables.cycles, data.cycles)
        r == SyncRecords("recovery", tables.recovery, data.recovery)
        s == SyncRecords("sleep", tables.sleep, data.sleep)
        w == SyncRecords("workouts", tables.workouts, data.workouts)
    IN  IF ~ok THEN [tables |-> tables, out |-> Raised(StorageFault)]
        ELSE IF c.conflict \/ r.conflict \/ s.conflict \/ w.conflict
        THEN [tables |-> tables, out |-> Raised("IntegrityError")]
        ELSE [tables |-> [cycles |-> c.table, recovery |-> r.table,
                          sleep |-> s.table, workouts |-> w.table],
              out |-> Returned([cycles |-> c.saved, recovery |-> r.saved,
                                sleep |-> s.saved, workouts |-> w.saved])]

\* Upstream ids a fetch of cycles can hold, in the order fetched: one record,
\* two records, and one record reported twice (on two pages).
CycleShapes == {<<1>>, <<1, 2>>, <<1, 1>>}

\* The same for sleeps and for workouts: nothing, one record, one record twice.
SyncShapes == {<<>>, <<1>>, <<1, 1>>}

\* What upstream reports for a day at the time of a fetch: it can change
\* between two fetches.
SyncDays ==
    { UpstreamDay(150, 20,  40, 60, 3450, 9000000, 90),
      UpstreamDay(100, 70, 100, 50, 3300, 0, 40) }

\* The fetched lists of one sync_all.  A recovery belongs to a cycle: the
\* recoveries fetched are those of the cycles fetched.
Fetched(cs, ss, ws, d) ==
    [cycles   |-> [k \in DOMAIN cs |-> [id |-> cs[k], start |-> 0, score |-> d.cycle]],
     recovery |-> [k \in DOMAIN cs |->
                     [cycle_id |-> cs[k], created_at |-> 0, score |-> d.recovery]],
     sleep    |-> [k \in DOMAIN ss |-> [id |-> ss[k], end |-> 0, score |-> d.sleep]],
     workouts |-> [k \in DOMAIN ws |-> [id |-> ws[k], start |-> 0, score |-> d.workout]]]

NothingFetched == [cycles |-> <<>>, recovery |-> <<>>, sleep |-> <<>>, workouts |-> <<>>]

\* One run of sync_all, from a job, the /sync command or the shell.
CallSyncAll ==
    /\ \E cs \in CycleShapes, ss \in SyncShapes, ws \in SyncShapes, d \in SyncDays :
         LET data == Fetched(cs, ss, ws, d)
             run1 == sync_all(Tables, data, TRUE)
         IN  /\ cycles' = run1.tables.cycles
             /\ recoveries' = run1.tables.recovery
             /\ sleeps' = run1.tables.sleep
             /\ workouts' = run1.tables.workouts
             /\ ret' = [fn |-> "sync_all", data |-> data, before |-> Tables,
                        out |-> run1.out]
    /\ UNCHANGED <<now, periphery, run>>

\* A run of sync_all in which a fetch raises, or the database does.
SyncAllFails ==
    /\ ret' = [fn |-> "sync_all", data |-> NothingFetched, before |-> Tables,
               out |-> sync_all(Tables, NothingFetched, FALSE).out]
    /\ UNCHANGED <<now, periphery, store, run>>

NextSync == CallSyncAll \/ SyncAllFails

SpecSync == Init /\ [][NextSync]_vars

SyncCalled == ret.fn = "sync_all"

SyncReturned == SyncCalled /\ ret.out.kind = "return"

\* No two rows of a table have the same upstream id.
OnePerId ==
    /\ \A x, y \in cycles : x.id = y.id => x = y
    /\ \A x, y \in recoveries : x.cycle_id = y.cycle_id => x = y
    /\ \A x, y \in sleeps : x.id = y.id => x = y
    /\ \A x, y \in workouts : x.id = y.id => x = y

ZeroCounts == [cycles |-> 0, recovery |-> 0, sleep |-> 0, workouts |-> 0]

\* C26: the store holds at most one row per upstream id; a sync leaves every
\* row that was stored before it as it was; the counts a sync returns are the
\* numbers of rows it inserted; and the same upstream data synced once more
\* returns all-zero counts and leaves the store unchanged.
C26_DedupeByUpstreamId ==
    /\ OnePerId
    /\ SyncCalled =>
         /\ ret.before.cycles \subseteq cycles
         /\ ret.before.recovery \subseteq recoveries
         /\ ret.before.sleep \subseteq sleeps
         /\ ret.before.workouts \subseteq workouts
    /\ SyncReturned =>
         /\ ret.out.value.cycles = Cardinality(cycles) - Cardinality(ret.before.cycles)
         /\ ret.out.value.recovery =
                Cardinality(recoveries) - Cardinality(ret.before.recovery)
         /\ ret.out.value.sleep = Cardinality(sleeps) - Cardinality(ret.before.sleep)
         /\ ret.out.value.workouts =
                Cardinality(workouts) - Cardinality(ret.before.workouts)
         /\ sync_all(Tables, ret.data, TRUE) =
                [tables |-> Tables, out |-> Returned(ZeroCounts)]

\* A sync that found one cycle stored already, with other scores than upstream
\* now reports, and inserted a second one.
C26_Witness ==
    /\ SyncReturned
    /\ ret.out.value.cycles = 1
    /\ Len(ret.data.cycles) = 2
    /\ \E x \in ret.before.cycles :
         /\ x.id = ret.data.cycles[1].id
         /\ x.strain_score # ScoreGet(ret.data.cycles[1].score, "strain")

---------------------------------------------------------------------------
(* Journal threads: src/slack_bot/handlers.py, src/journal/flow.py *)

\* The configured user (config/settings.py) and anyone else who can write
SLACK_USER_ID == "U_OWNER"
Users == {SLACK_USER_ID, "U_OTHER"}

\* Prompts posted at most; a thread carries the number of its prompt as ts,
\* and 0 is a thread that no journal prompt started.
MaxPrompts == 2

\* The message events Slack can deliver once `prompts` prompts are posted
Events(prompts) ==
    [user : Users, bot_id : BOOLEAN, channel_type : {"im", "channel"},
     text : {"", "none / 3 / n"}, thread_ts : {None} \cup {Some(t) : t \in 0..prompts}]

\* Mutant of Route: every thread reply of the user goes to the journal parser.
Route_AnyThread(event, pending) ==
    IF event.bot_id THEN "ignored"
    ELSE IF event.user # SLACK_USER_ID THEN "ignored"
    ELSE IF ~IsNone(event.thread_ts) THEN "journal"
    ELSE IF event.channel_type = "im" /\ event.text # "" THEN "qa"
    ELSE "dropped"

\* handle_dm: what becomes of an event
Route(event, pending) ==
    IF event.bot_id THEN "ignored"
    ELSE IF event.user # SLACK_USER_ID THEN "ignored"
    ELSE IF ~IsNone(event.thread_ts) /\ Val(event.thread_ts) \in pending THEN "journal"
    ELSE IF event.channel_type = "im" /\ event.text # "" THEN "qa"
    ELSE "dropped"

\* send_journal_prompt: chat_postMessage, then register_journal_thread with the
\* ts of the posted message; a failing post is logged and registers nothing.
SendJournalPrompt ==
    /\ journal.prompts < MaxPrompts
    /\ \E posted \in BOOLEAN :
         journal' =
            IF posted
            THEN [journal EXCEPT !.prompts = @ + 1,
                                 !.pending = @ \cup {journal.prompts + 1},
                                 !.last = [kind |-> "prompt", ts |-> Some(journal.prompts + 1)]]
            ELSE [journal EXCEPT !.last = [kind |-> "prompt", ts |-> None]]
    /\ UNCHANGED <<now, store, run, ret, client, job>>

\* handle_dm on one event.  A reply routed to the journal runs
\* parse_journal_reply: the entry is committed, then the thread is
\* unregistered; when the commit fails the exception leaves the handler and
\* the thread stays registered.  Nothing is awaited between the membership
\* test and the unregistration.
HandleDm ==
    /\ \E event \in Events(journal.prompts), dbOk \in BOOLEAN :
         LET route == Route(event, journal.pending)
             saved == route = "journal" /\ dbOk
             seen  == [kind |-> "message", event |-> event, route |-> route,
                       saved |-> saved,
                       was_pending |-> /\ ~IsNone(event.thread_ts)
                                       /\ Val(event.thread_ts) \in journal.pending]
         IN  journal' =
                IF saved
                THEN [journal EXCEPT !.pending = @ \ {Val(event.thread_ts)},
                                     !.saved = Append(@, Val(event.thread_ts)),
                                     !.last = seen]
                ELSE [journal EXCEPT !.last = seen]
    /\ UNCHANGED <<now, store, run, ret, client, job>>

\* The process is started again: the module-level dict is empty.
Restart ==
    /\ journal' = [journal EXCEPT !.pending = {}, !.last = [kind |-> "restart"]]
    /\ UNCHANGED <<now, store, run, ret, client, job>>

NextJournal == SendJournalPrompt \/ HandleDm \/ Restart

SpecJournal == Init /\ [][NextJournal]_vars

\* The last event was a thread reply of the configured user.
ThreadReply ==
    /\ journal.last.kind = "message"
    /\ journal.last.event.user = SLACK_USER_ID
    /\ ~journal.last.event.bot_id
    /\ ~IsNone(journal.last.event.thread_ts)

\* How many replies of thread t were saved as journal entries
SavedReplies(t) == Cardinality({k \in DOMAIN journal.saved : journal.saved[k] = t})

\* C27: a thread reply of the configured user goes to the journal parser
\* exactly when its thread is registered at that moment; posting a prompt
\* registers its thread and saving a reply unregisters it; no thread has more
\* than one reply saved as a journal entry.
C27_RoutedIffPending ==
    /\ ThreadReply => (journal.last.route = "journal" <=> journal.last.was_pending)
    /\ journal.last.kind = "message" /\ journal.last.route = "journal" =>
         (ThreadReply /\ journal.last.was_pending)
    /\ journal.last.kind = "message" /\ journal.last.saved =>
         Val(journal.last.event.thread_ts) \notin journal.pending
    /\ journal.last.kind = "prompt" /\ ~IsNone(journal.last.ts) =>
         Val(journal.last.ts) \in journal.pending
    /\ journal.pending \subseteq 1..journal.prompts
    /\ \A t \in 0..MaxPrompts : SavedReplies(t) <= 1

\* A second reply in a thread whose first reply was saved: it is answered as
\* a question and not parsed.
C27_Witness ==
    /\ ThreadReply
    /\ SavedReplies(Val(journal.last.event.thread_ts)) = 1
    /\ ~journal.last.saved
    /\ journal.last.route = "qa"

---------------------------------------------------------------------------
(* The midday job, src/scheduler/jobs.py *)

\* What sync_all(days=1) fetches on day t when upstream reports d for it
DayFetched(t, d) ==
    [cycles   |-> <<[id |-> t, start |-> t, score |-> d.cycle]>>,
     recovery |-> <<[cycle_id |-> t, created_at |-> t, score |-> d.recovery]>>,
     sleep    |-> <<[id |-> t, end |-> t, score |-> d.sleep]>>,
     workouts |-> <<[id |-> t, start |-> t, score |-> d.workout]>>]

\* Mutant of ExceptSync: the except clause does not return (as in _morning_job).
ExceptSync_FallsThrough == [pc |-> "synced", trace |-> <<"sync_all raised", "notify_error">>]

\* `except Exception as e`: logger.error, notify_error, return
ExceptSync == [pc |-> "done", trace |-> <<"sync_all raised", "notify_error">>]

InitMidday ==
    /\ now = MaxNow
    /\ \E pick \in [0..MaxNow - 1 -> UpstreamDays] :
         /\ cycles = SyncedCycles(pick)
         /\ recoveries = SyncedRecoveries(pick)
         /\ sleeps = SyncedSleeps(pick)
         /\ workouts = SyncedWorkouts(pick)
    /\ pc = "idle" /\ hrv_baseline = None /\ i = 0
    /\ flags = <<>> /\ log = <<>> /\ faulted = {}
    /\ ret = [fn |-> "none"]
    /\ InitPeriphery

\* The try block: sync_all(days=1), then notify_sync_success, which catches
\* the failure of its own post.
MiddaySync ==
    /\ job.pc = "idle" /\ pc = "idle"
    /\ \E d \in UpstreamDays, ok \in BOOLEAN :
         LET synced == sync_all(Tables, DayFetched(now, d), ok)
         IN  /\ cycles' = synced.tables.cycles
             /\ recoveries' = synced.tables.recovery
             /\ sleeps' = synced.tables.sleep
             /\ workouts' = synced.tables.workouts
             /\ job' = IF synced.out.kind = "return"
                       THEN [pc |-> "synced", trace |-> <<"sync_all", "notify_sync_success">>]
                       ELSE ExceptSync
    /\ UNCHANGED <<now, run, ret, client, journal>>

\* hrv_baseline = get_hrv_baseline(), then the call of run_all_checks with it;
\* a failing baseline query ends the job with its exception.
MiddayEnterChecks ==
    /\ job.pc = "synced"
    /\ \E dbOk \in BOOLEAN :
         LET b == get_hrv_baseline(DEFAULT_BASELINE_DAYS, dbOk)
         IN  IF b.kind = "raise"
             THEN /\ job' = [pc |-> "done",
                             trace |-> Append(job.trace, "get_hrv_baseline raised")]
                  /\ UNCHANGED run
             ELSE /\ job' = [pc |-> "checking",
                             trace |-> job.trace \o <<"get_hrv_baseline", "run_all_checks">>]
                  /\ hrv_baseline' = b.value
                  /\ pc' = "running" /\ i' = 1
                  /\ flags' = <<>> /\ log' = <<>> /\ faulted' = {}
    /\ UNCHANGED <<now, store, ret, client, journal>>

\* `if flags:` analyze_flags, and `if alert_text:` the post of the alert.
\* analyze_flags asks the language model: it returns a text, possibly empty,
\* or raises.
MiddayAlert ==
    /\ job.pc = "checking" /\ pc = "returned"
    /\ \E answer \in {"text", "", "raised"} :
         job' = [pc |-> "done",
                 trace |-> IF flags = <<>> THEN job.trace
                           ELSE IF answer = "raised"
                           THEN Append(job.trace, "analyze_flags raised")
                           ELSE IF answer = ""
                           THEN Append(job.trace, "analyze_flags")
                           ELSE job.trace \o <<"analyze_flags", "chat_postMessage">>]
    /\ UNCHANGED <<now, store, run, ret, client, journal>>

\* The job is over; the scheduler can start the next one.
MiddayEnd ==
    /\ job.pc = "done"
    /\ job' = NoJob
    /\ pc' = "idle" /\ hrv_baseline' = None /\ i' = 0
    /\ flags' = <<>> /\ log' = <<>> /\ faulted' = {}
    /\ UNCHANGED <<now, store, ret, client, journal>>

NextMidday ==
    MiddaySync \/ MiddayEnterChecks \/ RunChecker \/ ReturnFlags \/ MiddayAlert \/ MiddayEnd

SpecMidday == InitMidday /\ [][NextMidday]_vars

\* The calls the job has made so far
JobCalls == Range(job.trace)

\* C28: the midday job computes the baseline, runs the checks and posts an
\* alert only after its sync_all has returned; when sync_all raises it calls
\* notify_error and ends, having done none of these; and it posts no alert when
\* the checks return no flags.
C28_ChecksOnlyAfterSync ==
    /\ JobCalls \cap {"get_hrv_baseline", "get_hrv_baseline raised", "run_all_checks",
                      "analyze_flags", "analyze_flags raised", "chat_postMessage"} # {}
         => (job.trace # <<>> /\ job.trace[1] = "sync_all")
    /\ pc # "idle" => (job.trace # <<>> /\ job.trace[1] = "sync_all")
    /\ "sync_all raised" \in JobCalls =>
         /\ job.pc = "done"
         /\ job.trace = <<"sync_all raised", "notify_error">>
         /\ pc = "idle" /\ IsNone(hrv_baseline) /\ flags = <<>>
    /\ "chat_postMessage" \in JobCalls => (pc = "returned" /\ flags # <<>>)
    /\ job.pc = "done" /\ pc = "returned" /\ flags = <<>> =>
         job.trace = <<"sync_all", "notify_sync_success", "get_hrv_baseline", "run_all_checks">>

\* A job whose sync failed has ended, in tables that would raise a flag.
C28_Witness ==
    /\ job.pc = "done"
    /\ "sync_all raised" \in JobCalls
    /\ ~IsNone(check_low_recovery(TRUE).value)

---------------------------------------------------------------------------
(* check_sleep_debt after a sync of today's records *)

\* Sleeps of earlier days are stored, with any debt; today's is not.
InitDebtSync ==
    /\ now = 0
    /\ \E pick \in [SleepStamps \ {0} -> SleepPicks \cup {<<0, 0>>}] :
         sleeps = {SleepRow(t, pick[t]) : t \in {u \in DOMAIN pick : pick[u] # <<0, 0>>}}
    /\ recoveries = {} /\ cycles = {} /\ workouts = {}
    /\ pc = "idle" /\ hrv_baseline = None /\ i = 0
    /\ flags = <<>> /\ log = <<>> /\ faulted = {}
    /\ ret = [fn |-> "none"]
    /\ InitPeriphery

\* sync_all fetches the records of today; ok: no fetch and no commit fails.
SyncDay ==
    /\ \E d \in UpstreamDays, ok \in BOOLEAN :
         LET synced == sync_all(Tables, DayFetched(now, d), ok)
         IN  /\ cycles' = synced.tables.cycles
             /\ recoveries' = synced.tables.recovery
             /\ sleeps' = synced.tables.sleep
             /\ workouts' = synced.tables.workouts
             /\ ret' = [fn |-> "sync_all", data |-> DayFetched(now, d), before |-> Tables,
                        out |-> synced.out]
    /\ UNCHANGED <<now, periphery, run>>

\* A call check_sleep_debt() after a sync; `after` keeps the record of the sync.
CheckSleepDebtAfterSync ==
    /\ ret.fn = "sync_all"
    /\ \E dbOk \in BOOLEAN :
         ret' = [fn |-> "check_sleep_debt", dbOk |-> dbOk, out |-> check_sleep_debt(dbOk),
                 after |-> ret]
    /\ UNCHANGED <<now, periphery, store, run>>

NextDebtSync == SyncDay \/ CheckSleepDebtAfterSync

SpecDebtSync == InitDebtSync /\ [][NextDebtSync]_vars

\* check_sleep_debt has run after a sync that inserted a sleep whose upstream
\* debt was 0 ms.
ZeroDebtSynced ==
    /\ ret.fn = "check_sleep_debt" /\ ret.dbOk
    /\ ret.after.out.kind = "return"
    /\ ret.after.out.value.sleep = 1
    /\ ScoreGet(ret.after.data.sleep[1].score, "sleep_debt_milli") = Some(0)

====
